---- MODULE Spec2Model ----
(***************************************************************************)
(* TNT lead system: lead intake, the four Bull queues (email,              *)
(* notifications, integrations, analytics), the e-mail processors, the     *)
(* follow-up sequence model and the response-time scan.                     *)
(*                                                                         *)
(* Time is in seconds.  A job's position in the wait list is the position  *)
(* Bull gives it (priority insert); the head of the list is the next job   *)
(* a free worker takes.                                                     *)
(***************************************************************************)
EXTENDS Integers, Sequences, FiniteSets, TLC

VARIABLES
  now,          \* wall clock, seconds
  leads,        \* Lead table: sequence of records, the id is the index
  sequences,    \* EmailSequence table
  interactions, \* LeadInteraction table
  webhookLogs,  \* WebhookLog table
  outbox,       \* e-mails handed to emailService.sendEmail
  slackLog,     \* messages handed to slackService
  notifications,\* Notification table
  jobs,         \* every job ever added, the id is the index
  wait,         \* per queue: ids of the waiting jobs, head = next to run
  completed,    \* per queue: ids in the completed set, oldest first
  failed,       \* per queue: ids in the failed set, oldest first
  nextRun,      \* per recurring job: time of its next repetition
  triggers,     \* POST /automation/trigger requests between read and write
  templates,    \* AutomatedResponse: the counters of the e-mail template
  requests,     \* webhook requests inside their handler, after the log is written
  config,       \* process.env: NODE_ENV is development, a webhook secret is set
  scoringFactors, \* ScoringFactor table, by factor_name
  scored,       \* the last score computed: for which lead, by which function
  loop,         \* the call of getNextBusinessHour under way, if any
  integrations, \* ExternalIntegration table, by service_name
  answers       \* what POST /leads and POST /form-submission answered

vars == <<now, leads, sequences, interactions, webhookLogs, outbox, slackLog,
          notifications, jobs, wait, completed, failed, nextRun, triggers,
          templates, requests, config, scoringFactors, scored, loop, integrations, answers>>

dbVars == <<leads, sequences, interactions, webhookLogs, notifications>>
queueVars == <<jobs, wait, completed, failed, nextRun>>

----------------------------------------------------------------------------
(* Bounds of the model *)

MaxJobs == 4
MaxQueueJobs == 3
MaxRetryJobs == 2
MaxRetentionJobs == 4
MaxRetentionDays == 9
MaxSeqs == 2
MaxWebhookLogs == 2
MaxBurst == 20
MaxLiveJobs == 2
MaxSlaJobs == 4
MaxRaceJobs == 3
MaxModelSeqs == 1
MaxSweepJobs == 3
MaxFollowUpJobs == 3
MaxFollowUpDays == 2
MaxStopJobs == 4
MaxRequests == 3
MaxDeliveries == 3
MaxDedupDays == 2
MaxReplayJobs == 2
MaxReplayDays == 1
MaxAbandonJobs == 4
MaxLeadOps == 3
MaxClockDays == 2
MaxFanOutJobs == 2
MaxExpiryJobs == 2
MaxExpiryHours == 2
MaxNamedJobs == 3
MaxNamedMinutes == 30
MaxResendJobs == 1
MaxOffHoursJobs == 3
MaxIterations == 26
MaxLoopDays == 7
MaxStepJobs == 4
MaxAlertJobs == 3
MaxBreakdownLeads == 2
MaxEnqueueLeads == 2
MaxEnqueueLogs == 2
MaxSyncJobs == 2
MaxResponses == 1

Null == -1
Undef == -1

Emails == {"a@x", "b@x"}

----------------------------------------------------------------------------
(* Small helpers *)

Min(a, b) == IF a <= b THEN a ELSE b

Pow2(n) == IF n = 0 THEN 1 ELSE IF n = 1 THEN 2 ELSE IF n = 2 THEN 4
           ELSE IF n = 3 THEN 8 ELSE IF n = 4 THEN 16 ELSE 32

Ids(s) == 1..Len(s)

SeqToSet(s) == {s[i] : i \in 1..Len(s)}

RECURSIVE FilterOut(_, _)
FilterOut(s, drop) ==
  IF s = <<>> THEN <<>>
  ELSE IF Head(s) \in drop THEN FilterOut(Tail(s), drop)
       ELSE <<Head(s)>> \o FilterOut(Tail(s), drop)

\* the last n elements of s
LastN(s, n) == IF Len(s) <= n THEN s ELSE SubSeq(s, Len(s) - n + 1, Len(s))

\* the first elements of s, those that LastN drops
DropLastN(s, n) == IF Len(s) <= n THEN <<>> ELSE SubSeq(s, 1, Len(s) - n)

----------------------------------------------------------------------------
(* The queues (app.js, queue management): Bull options of every job        *)

Queues == {"email", "notification", "integration", "analytics"}

\* queueConfig.defaultJobOptions
DefaultAttempts == 3
DefaultBackoff == 2
DefaultRemoveOnComplete == 50
DefaultRemoveOnFail == 20

\* a job with the default options, waiting to be added
BaseJob(queue, name) ==
  [queue |-> queue, name |-> name, priority |-> 0, delay |-> 0,
   attempts |-> DefaultAttempts, backoff |-> DefaultBackoff,
   removeOnComplete |-> DefaultRemoveOnComplete,
   removeOnFail |-> DefaultRemoveOnFail,
   leadId |-> 0, seqId |-> 0, webhookId |-> 0,
   state |-> "new", attemptsMade |-> 0, runs |-> 0, delayUntil |-> 0,
   addedOn |-> 0, finishedOn |-> Null, result |-> "none",
   channels |-> [email |-> "none", slack |-> "none", sms |-> "none"],
   pc |-> "start", sawActive |-> FALSE]

\* the processors initializeQueues registers, per queue
Handlers(queue) ==
  CASE queue = "email" -> {"instant_response", "follow_up", "sequence_step"}
    [] queue = "notification" ->
         {"high_value_alert", "response_time_alert", "slack_notification"}
    [] queue = "integration" -> {"zoho_sync", "fasttrack_sync", "webhook_replay"}
    [] queue = "analytics" -> {"daily_metrics", "response_time_metrics"}

\* Bull adds up the concurrency of the named processors of one queue
Concurrency(queue) ==
  CASE queue = "email" -> 10 + 5 + 5
    [] queue = "notification" -> 10 + 10 + 5
    [] queue = "integration" -> 3 + 3 + 5
    [] queue = "analytics" -> 1 + 1

\* the instant response added behind the follow-ups, for comparison
addInstantEmailJobPriority10(leadId) ==
  [BaseJob("email", "instant_response") EXCEPT
     !.priority = 10, !.delay = 0, !.attempts = 5, !.removeOnComplete = 100,
     !.leadId = leadId]

addInstantEmailJob(leadId) ==
  [BaseJob("email", "instant_response") EXCEPT
     !.priority = 1, !.delay = 0, !.attempts = 5, !.removeOnComplete = 100,
     !.leadId = leadId]

addFollowUpEmailJob(leadId, delaySeconds) ==
  [BaseJob("email", "follow_up") EXCEPT
     !.priority = 5, !.delay = delaySeconds, !.attempts = 3,
     !.leadId = leadId]

addSequenceStepJob(sequenceId) ==
  [BaseJob("email", "sequence_step") EXCEPT
     !.priority = 7, !.attempts = 3, !.seqId = sequenceId]

addHighValueNotification(leadId) ==
  [BaseJob("notification", "high_value_alert") EXCEPT
     !.priority = 2, !.delay = 0, !.attempts = 3, !.leadId = leadId]

addResponseTimeAlert(leadId) ==
  [BaseJob("notification", "response_time_alert") EXCEPT
     !.priority = 3, !.delay = 0, !.attempts = 3, !.leadId = leadId]

\* the Slack job with the queue's default attempts, for comparison
addSlackNotificationDefaultAttempts(priority) ==
  [BaseJob("notification", "slack_notification") EXCEPT !.priority = priority]

addSlackNotification(priority) ==
  [BaseJob("notification", "slack_notification") EXCEPT
     !.priority = priority, !.attempts = 2]

\* serviceName \in {"zoho_crm", "fasttrack_invision"}: the job name is
\* serviceName + "_sync"
addIntegrationSync(serviceName, leadId) ==
  [BaseJob("integration",
           IF serviceName = "zoho_crm" THEN "zoho_crm_sync"
           ELSE "fasttrack_invision_sync") EXCEPT
     !.priority = 8, !.attempts = 3, !.backoff = 5, !.leadId = leadId]

\* scheduleRecurringJobs: name -> queue, period (s), removeOnComplete/Fail
Recurring == {"daily_metrics", "response_time_metrics", "health_check",
              "process_sequences"}

RecurringQueue(name) ==
  CASE name = "daily_metrics" -> "analytics"
    [] name = "response_time_metrics" -> "analytics"
    [] name = "health_check" -> "integration"
    [] name = "process_sequences" -> "email"

RecurringPeriod(name) ==
  CASE name = "daily_metrics" -> 24 * 3600
    [] name = "response_time_metrics" -> 15 * 60
    [] name = "health_check" -> 30 * 60
    [] name = "process_sequences" -> 5 * 60

RecurringJob(name) ==
  [BaseJob(RecurringQueue(name), name) EXCEPT
     !.removeOnComplete =
        CASE name = "daily_metrics" -> 5
          [] name = "response_time_metrics" -> 10
          [] name = "health_check" -> 5
          [] name = "process_sequences" -> 10,
     !.removeOnFail =
        CASE name = "daily_metrics" -> 2
          [] name = "response_time_metrics" -> 3
          [] name = "health_check" -> 2
          [] name = "process_sequences" -> 3]

----------------------------------------------------------------------------
(* The dispatcher: what Bull does with a job.  A queue state qs is the     *)
(* record [jobs, wait, completed, failed].                                  *)

QS == [jobs |-> jobs, wait |-> wait, completed |-> completed, failed |-> failed]

\* Bull's priority insert: a job without a priority goes to the back; a job
\* with priority p goes behind the waiting jobs whose priority is 1..p
InsertWait(w, js, id) ==
  LET p == js[id].priority
      c == Cardinality({i \in 1..Len(w) :
                          js[w[i]].priority > 0 /\ js[w[i]].priority <= p})
  IN IF p = 0 THEN Append(w, id)
     ELSE SubSeq(w, 1, c) \o <<id>> \o SubSeq(w, c + 1, Len(w))

\* queue.add(name, data, opts)
QAdd(qs, job, t) ==
  LET id == Len(qs.jobs) + 1
      j == [job EXCEPT !.addedOn = t,
                       !.state = IF job.delay > 0 THEN "delayed" ELSE "waiting",
                       !.delayUntil = t + job.delay]
      js == Append(qs.jobs, j)
  IN [qs EXCEPT !.jobs = js,
                !.wait[job.queue] =
                   IF job.delay > 0 THEN @ ELSE InsertWait(@, js, id)]

\* a delayed job whose time has come moves to the wait list
QPromote(qs, id) ==
  LET js == [qs.jobs EXCEPT ![id].state = "waiting"]
  IN [qs EXCEPT !.jobs = js,
                !.wait[js[id].queue] = InsertWait(@, js, id)]

DueJobs(qs, t) ==
  {i \in Ids(qs.jobs) : qs.jobs[i].state = "delayed" /\ qs.jobs[i].delayUntil <= t}

\* promote every due job, the earliest (then the oldest) first
RECURSIVE QPromoteDue(_, _)
QPromoteDue(qs, t) ==
  LET due == DueJobs(qs, t)
  IN IF due = {} THEN qs
     ELSE LET i == CHOOSE i \in due : \A k \in due :
                     \/ qs.jobs[i].delayUntil < qs.jobs[k].delayUntil
                     \/ /\ qs.jobs[i].delayUntil = qs.jobs[k].delayUntil
                        /\ i <= k
          IN QPromoteDue(QPromote(qs, i), t)

\* the jobs a finished set drops when it keeps only its keep newest
Trimmed(set, keep) == SeqToSet(DropLastN(set, keep))

MarkRemoved(js, ids) ==
  [i \in Ids(js) |-> IF i \in ids THEN [js[i] EXCEPT !.state = "removed"] ELSE js[i]]

\* delay before the next attempt: exponential backoff
BackoffDelay(job, attemptsMade) == (Pow2(attemptsMade) - 1) * job.backoff

ShouldRetry(job, attemptsMade) == attemptsMade < job.attempts

\* the handler of active job id threw
QFail(qs, id, t) ==
  LET job == qs.jobs[id]
      made == job.attemptsMade + 1
      q == job.queue
  IN IF ShouldRetry(job, made)
     THEN LET d == BackoffDelay(job, made)
              js == [qs.jobs EXCEPT ![id].attemptsMade = made,
                                    ![id].pc = "start",
                                    ![id].sawActive = FALSE,
                                    ![id].state = "delayed",
                                    ![id].delayUntil = t + d]
          IN [qs EXCEPT !.jobs = js]
     ELSE LET all == Append(qs.failed[q], id)
              js == [qs.jobs EXCEPT ![id].attemptsMade = made,
                                    ![id].state = "failed",
                                    ![id].result = "failed",
                                    ![id].finishedOn = t]
          IN [qs EXCEPT !.jobs = MarkRemoved(js, Trimmed(all, job.removeOnFail)),
                        !.failed[q] = LastN(all, job.removeOnFail)]

\* the handler of active job id returned result
QComplete(qs, id, result, t) ==
  LET job == qs.jobs[id]
      q == job.queue
      all == Append(qs.completed[q], id)
      js == [qs.jobs EXCEPT ![id].state = "completed",
                            ![id].result = result,
                            ![id].finishedOn = t]
  IN [qs EXCEPT !.jobs = MarkRemoved(js, Trimmed(all, job.removeOnComplete)),
                !.completed[q] = LastN(all, job.removeOnComplete)]

\* jobs' etc. from a queue state
SetQueues(qs) ==
  /\ jobs' = qs.jobs
  /\ wait' = qs.wait
  /\ completed' = qs.completed
  /\ failed' = qs.failed

\* one pool of workers for all queues, for comparison
ActiveJobsOfAnyQueue(queue) ==
  {i \in Ids(jobs) : jobs[i].state = "active"}

ActiveJobs(queue) ==
  {i \in Ids(jobs) : jobs[i].queue = queue /\ jobs[i].state = "active"}

\* a free worker of the queue takes the head of the wait list
StartJob(queue) ==
  /\ wait[queue] # <<>>
  /\ Cardinality(ActiveJobs(queue)) < Concurrency(queue)
  /\ LET id == Head(wait[queue])
     IN /\ jobs' = [jobs EXCEPT ![id].state = "active",
                                ![id].runs = @ + 1,
                                ![id].pc = "start"]
        /\ wait' = [wait EXCEPT ![queue] = Tail(@)]
  /\ UNCHANGED <<now, dbVars, outbox, slackLog, completed, failed, nextRun,
                 triggers, templates, requests, config, scoringFactors, scored, loop, integrations, answers>>

\* a job whose name no processor is registered under fails at once:
\* "Missing process handler for job type"
MissingHandler(id) ==
  /\ id \in Ids(jobs)
  /\ jobs[id].state = "active"
  /\ jobs[id].name \notin Handlers(jobs[id].queue)
  /\ SetQueues(QFail(QS, id, now))
  /\ UNCHANGED <<now, dbVars, outbox, slackLog, nextRun, triggers, templates, requests, config, scoringFactors, scored, loop, integrations, answers>>

\* getQueueStats
getQueueStats(queue) ==
  [waiting |-> Len(wait[queue]),
   active |-> Cardinality(ActiveJobs(queue)),
   completed |-> Len(completed[queue]),
   failed |-> Len(failed[queue])]

\* cleanupQueues: queue.clean(grace, type, limit) drops up to limit jobs of
\* the set that finished more than grace ago
CompletedGrace == 24 * 60 * 60
CompletedLimit == 100
FailedGrace == 7 * 24 * 60 * 60
FailedLimit == 50

RECURSIVE TakeOld(_, _, _, _)
TakeOld(set, js, cutoff, limit) ==
  IF set = <<>> \/ limit = 0 THEN {}
  ELSE IF js[Head(set)].finishedOn < cutoff
       THEN {Head(set)} \cup TakeOld(Tail(set), js, cutoff, limit - 1)
       ELSE TakeOld(Tail(set), js, cutoff, limit)

\* the clean-up with the 24 hour grace for failed jobs too, for comparison
cleanupQueuesOneGrace ==
  LET goneC == [q \in Queues |->
                  TakeOld(completed[q], jobs, now - CompletedGrace, CompletedLimit)]
      goneF == [q \in Queues |->
                  TakeOld(failed[q], jobs, now - CompletedGrace, FailedLimit)]
      gone == UNION {goneC[q] \cup goneF[q] : q \in Queues}
  IN /\ jobs' = MarkRemoved(jobs, gone)
     /\ completed' = [q \in Queues |-> FilterOut(completed[q], goneC[q])]
     /\ failed' = [q \in Queues |-> FilterOut(failed[q], goneF[q])]
     /\ UNCHANGED <<now, dbVars, outbox, slackLog, wait, nextRun, triggers, templates, requests, config, scoringFactors, scored, loop, integrations, answers>>

cleanupQueues ==
  LET goneC == [q \in Queues |->
                  TakeOld(completed[q], jobs, now - CompletedGrace, CompletedLimit)]
      goneF == [q \in Queues |->
                  TakeOld(failed[q], jobs, now - FailedGrace, FailedLimit)]
      gone == UNION {goneC[q] \cup goneF[q] : q \in Queues}
  IN /\ jobs' = MarkRemoved(jobs, gone)
     /\ completed' = [q \in Queues |-> FilterOut(completed[q], goneC[q])]
     /\ failed' = [q \in Queues |-> FilterOut(failed[q], goneF[q])]
     /\ UNCHANGED <<now, dbVars, outbox, slackLog, wait, nextRun, triggers, templates, requests, config, scoringFactors, scored, loop, integrations, answers>>

----------------------------------------------------------------------------
(* Lead model *)

ClosedStatuses == {"converted", "lost"}

\* the scorer without the tier for groups of 4 to 7, for comparison
calculateScoreLargeGroupsOnly(l) ==
  LET company == IF l.company_name # "" THEN 10 ELSE 0
      value == IF l.estimated_value # Undef /\ l.estimated_value >= 1000 THEN 30
               ELSE IF l.estimated_value # Undef /\ l.estimated_value >= 500 THEN 20
               ELSE IF l.estimated_value # Undef /\ l.estimated_value > 0 THEN 10
               ELSE 0
      service == CASE l.service_type = "corporate" -> 25
                   [] l.service_type = "airport" -> 20
                   [] OTHER -> 0
      proximity == IF l.distance_from_base = Undef THEN 0
                   ELSE IF l.distance_from_base <= 25 THEN 15
                   ELSE 0
      group == IF l.passenger_count # Undef /\ l.passenger_count >= 8 THEN 15 ELSE 0
  IN Min(company + value + service + proximity + group, 100)

\* Lead.prototype.calculateScore; an attribute that was never given is Undef
\* and compares false with every number
calculateScore(l) ==
  LET company == IF l.company_name # "" THEN 10 ELSE 0
      value == IF l.estimated_value # Undef /\ l.estimated_value >= 1000 THEN 30
               ELSE IF l.estimated_value # Undef /\ l.estimated_value >= 500 THEN 20
               ELSE IF l.estimated_value # Undef /\ l.estimated_value > 0 THEN 10
               ELSE 0
      service == CASE l.service_type = "corporate" -> 25
                   [] l.service_type = "airport" -> 20
                   [] l.service_type = "events" -> 15
                   [] l.service_type = "wedding" -> 15
                   [] l.service_type = "hourly" -> 10
                   [] OTHER -> 0
      proximity == IF l.distance_from_base = Undef THEN 0
                   ELSE IF l.distance_from_base <= 25 THEN 15
                   ELSE IF l.distance_from_base <= 50 THEN 10
                   ELSE IF l.distance_from_base <= 100 THEN 5
                   ELSE 0
      group == IF l.passenger_count # Undef /\ l.passenger_count >= 8 THEN 15
               ELSE IF l.passenger_count # Undef /\ l.passenger_count >= 4 THEN 10
               ELSE 0
  IN Min(company + value + service + proximity + group, 100)

\* Lead.prototype.updatePriority
updatePriority(score) ==
  IF score >= 80 THEN 5
  ELSE IF score >= 60 THEN 4
  ELSE IF score >= 40 THEN 3
  ELSE IF score >= 20 THEN 2
  ELSE 1

\* Lead.prototype.isHighValue
isHighValue(l) ==
  (l.estimated_value # Undef /\ l.estimated_value >= 1000) \/ l.lead_score >= 70

\* the attributes a request can carry (the scorer's inputs)
LeadInputs ==
  { [company_name |-> "Acme", estimated_value |-> 1500, service_type |-> "corporate",
     distance_from_base |-> 10, passenger_count |-> 6],
    [company_name |-> "", estimated_value |-> Undef, service_type |-> "airport",
     distance_from_base |-> Undef, passenger_count |-> Undef] }

\* ScoringFactor (models/ScoringFactor.js): a factor is a row with active,
\* calculation_method and value_mappings, a JSON object from keys to points
Mapped(mappings, key) ==
  IF key \in DOMAIN mappings THEN mappings[key] ELSE 0

\* ScoringFactor.prototype.valueInRange for the keys "N+", "A-B" and "N" of
\* the default factors
valueInRange(value, range) ==
  CASE range = "1000+" -> value >= 1000
    [] range = "500-999" -> value >= 500 /\ value <= 999
    [] range = "100-499" -> value >= 100 /\ value <= 499
    [] range = "0-99" -> value >= 0 /\ value <= 99
    [] range = "0-25" -> value >= 0 /\ value <= 25
    [] range = "26-50" -> value >= 26 /\ value <= 50
    [] range = "51-100" -> value >= 51 /\ value <= 100
    [] range = "100+" -> value >= 100
    [] range = "8+" -> value >= 8
    [] range = "4-7" -> value >= 4 /\ value <= 7
    [] range = "2-3" -> value >= 2 /\ value <= 3
    [] range = "1" -> value = 1
    [] OTHER -> FALSE

\* ScoringFactor.prototype.calculateExactMatch
calculateExactMatch(name, mappings, lead) ==
  CASE name = "company_name_present" ->
         Mapped(mappings, IF lead.company_name # "" THEN "present" ELSE "absent")
    [] name = "service_type_priority" -> Mapped(mappings, lead.service_type)
    [] OTHER -> 0

\* ScoringFactor.prototype.calculateRange: the points of the first range the
\* value lies in
calculateRange(name, mappings, lead) ==
  IF name \notin {"estimated_value_tier", "geographic_proximity", "group_size_factor"}
  THEN 0
  ELSE LET OrElse(v, d) == IF v = Undef \/ v = 0 THEN d ELSE v
           value == CASE name = "estimated_value_tier" -> OrElse(lead.estimated_value, 0)
                      [] name = "geographic_proximity" ->
                           OrElse(lead.distance_from_base, 999)
                      [] name = "group_size_factor" -> OrElse(lead.passenger_count, 1)
           hit == {r \in DOMAIN mappings : valueInRange(value, r)}
       IN IF hit = {} THEN 0 ELSE mappings[CHOOSE r \in hit : TRUE]

\* ScoringFactor.prototype.calculateDynamic for timing_urgency: the hours from
\* the clock, new Date(), to the lead's service_date; t is the clock
calculateDynamic(name, mappings, lead, t) ==
  IF name # "timing_urgency" THEN 0
  ELSE LET serviceDate == IF "service_date" \in DOMAIN lead THEN lead.service_date
                          ELSE Undef
       IN IF serviceDate = Undef THEN Mapped(mappings, "future")
          ELSE IF serviceDate - t <= 24 * 3600 THEN Mapped(mappings, "same_day")
          ELSE IF serviceDate - t <= 48 * 3600 THEN Mapped(mappings, "next_day")
          ELSE Mapped(mappings, "future")

\* ScoringFactor.prototype.calculateScore
FactorScore(name, factor, lead) ==
  IF ~factor.active THEN 0
  ELSE CASE factor.calculation_method = "exact_match" ->
              calculateExactMatch(name, factor.value_mappings, lead)
         [] factor.calculation_method = "range" ->
              calculateRange(name, factor.value_mappings, lead)
         [] factor.calculation_method = "calculation" ->
              calculateDynamic(name, factor.value_mappings, lead, now)
         [] OTHER -> 0

\* ScoringFactor.findActive
findActive(table) == {n \in DOMAIN table : table[n].active}

RECURSIVE SumFactorScores(_, _, _)
SumFactorScores(table, names, lead) ==
  IF names = {} THEN 0
  ELSE LET n == CHOOSE n \in names : TRUE
       IN FactorScore(n, table[n], lead) + SumFactorScores(table, names \ {n}, lead)

\* ScoringFactor.calculateLeadScore
calculateLeadScore(table, lead) ==
  Min(SumFactorScores(table, findActive(table), lead), 100)

\* the row Lead.create stores: the beforeCreate hook scores the lead
NewLead(email, attrs, source, t) ==
  LET score == calculateScore(attrs)
  IN [email |-> email,
      company_name |-> attrs.company_name,
      estimated_value |-> attrs.estimated_value,
      service_type |-> attrs.service_type,
      distance_from_base |-> attrs.distance_from_base,
      passenger_count |-> attrs.passenger_count,
      lead_score |-> score,
      priority_level |-> updatePriority(score),
      status |-> "new",
      source |-> source,
      created_at |-> t]

\* the email column is unique: Lead.create throws on a second lead of an email
EmailTaken(email) == \E i \in Ids(leads) : leads[i].email = email

\* a row read back from the table (findByPk): a column that was never given is
\* null, and null compares with a number as 0 does
NullAsZero(l) ==
  [l EXCEPT !.estimated_value = IF @ = Undef THEN 0 ELSE @,
            !.distance_from_base = IF @ = Undef THEN 0 ELSE @,
            !.passenger_count = IF @ = Undef THEN 0 ELSE @]

\* the value instance.update(updates) sets for column f
Assigned(updates, f, old) == IF f \in DOMAIN updates THEN updates[f] ELSE old

\* the hook that rescores on every update, for comparison
beforeUpdateAlways(old, set) ==
  LET score == calculateScore(NullAsZero(set))
  IN [set EXCEPT !.lead_score = score, !.priority_level = updatePriority(score)]

\* Lead.beforeUpdate: old is the row as read, set the row with the new values
beforeUpdate(old, set) ==
  IF \/ set.estimated_value # old.estimated_value
     \/ set.service_type # old.service_type
     \/ set.passenger_count # old.passenger_count
     \/ set.distance_from_base # old.distance_from_base
  THEN LET score == calculateScore(NullAsZero(set))
       IN [set EXCEPT !.lead_score = score, !.priority_level = updatePriority(score)]
  ELSE set

\* lead.update(updates) on a row read from the table
leadUpdate(old, updates) ==
  beforeUpdate(old,
    [old EXCEPT !.status = Assigned(updates, "status", @),
                !.estimated_value = Assigned(updates, "estimated_value", @),
                !.priority_level = Assigned(updates, "priority_level", @),
                !.company_name = Assigned(updates, "company_name", @),
                !.service_type = Assigned(updates, "service_type", @),
                !.passenger_count = Assigned(updates, "passenger_count", @),
                !.distance_from_base = Assigned(updates, "distance_from_base", @)])

----------------------------------------------------------------------------
(* EmailSequence model *)

Day == 24 * 60 * 60

SequenceTypes == {"standard_follow_up", "high_value_follow_up",
                  "corporate_nurture", "wedding_follow_up"}

\* calculateNextSendTime's table, in seconds
StepDelays(name) ==
  CASE name = "high_value_follow_up" -> <<0, 2 * 3600, Day, 3 * Day>>
    [] name = "corporate_nurture" -> <<0, Day, 7 * Day, 30 * Day>>
    [] name = "wedding_follow_up" -> <<0, 2 * Day, 7 * Day, 21 * Day>>
    [] OTHER -> <<0, 3 * Day, 7 * Day, 14 * Day>>

\* EmailSequence.prototype.calculateNextSendTime
calculateNextSendTime(s, t) ==
  IF s.current_step <= Len(StepDelays(s.sequence_name))
  THEN [s EXCEPT !.next_send_at = t + StepDelays(s.sequence_name)[s.current_step]]
  ELSE s

\* EmailSequence.prototype.complete
complete(s, t) ==
  [s EXCEPT !.active = FALSE, !.completed_at = t, !.next_send_at = Null]

\* advance with the step test taken as <=, for comparison
advancePastTotal(s, t) ==
  IF s.current_step <= s.total_steps
  THEN calculateNextSendTime([s EXCEPT !.current_step = @ + 1], t)
  ELSE complete(s, t)

\* EmailSequence.prototype.advance
advance(s, t) ==
  IF s.current_step < s.total_steps
  THEN calculateNextSendTime([s EXCEPT !.current_step = @ + 1], t)
  ELSE complete(s, t)

\* EmailSequence.prototype.pause
pause(s, reason) ==
  [s EXCEPT !.active = FALSE, !.paused_reason = reason, !.next_send_at = Null]

\* EmailSequence.prototype.resume
resume(s, t) ==
  calculateNextSendTime([s EXCEPT !.active = TRUE, !.paused_reason = "none"], t)

\* EmailSequence.prototype.recordEmailSent
recordEmailSent(s) == [s EXCEPT !.emails_sent = @ + 1]

\* EmailSequence.prototype.recordResponse
recordResponse(s, t) == complete([s EXCEPT !.responses_received = @ + 1], t)

\* EmailSequence.createStandardSequence with the beforeCreate hook
createStandardSequence(leadId, sequenceType, t) ==
  calculateNextSendTime(
    [lead_id |-> leadId, sequence_name |-> sequenceType, current_step |-> 1,
     total_steps |-> 4, started_at |-> t, next_send_at |-> Null,
     completed_at |-> Null,
     active |-> TRUE, paused_reason |-> "none", emails_sent |-> 0,
     responses_received |-> 0], t)

\* the instance methods called on a stored sequence; each ends with save()
SequenceAdvance(s) ==
  /\ s \in Ids(sequences)
  /\ sequences' = [sequences EXCEPT ![s] = advance(@, now)]
  /\ UNCHANGED <<now, leads, interactions, webhookLogs, notifications, outbox,
                 slackLog, queueVars, triggers, templates, requests, config, scoringFactors, scored, loop, integrations, answers>>

SequenceComplete(s) ==
  /\ s \in Ids(sequences)
  /\ sequences' = [sequences EXCEPT ![s] = complete(@, now)]
  /\ UNCHANGED <<now, leads, interactions, webhookLogs, notifications, outbox,
                 slackLog, queueVars, triggers, templates, requests, config, scoringFactors, scored, loop, integrations, answers>>

SequencePause(s, reason) ==
  /\ s \in Ids(sequences)
  /\ sequences' = [sequences EXCEPT ![s] = pause(@, reason)]
  /\ UNCHANGED <<now, leads, interactions, webhookLogs, notifications, outbox,
                 slackLog, queueVars, triggers, templates, requests, config, scoringFactors, scored, loop, integrations, answers>>

SequenceResume(s) ==
  /\ s \in Ids(sequences)
  /\ sequences' = [sequences EXCEPT ![s] = resume(@, now)]
  /\ UNCHANGED <<now, leads, interactions, webhookLogs, notifications, outbox,
                 slackLog, queueVars, triggers, templates, requests, config, scoringFactors, scored, loop, integrations, answers>>

SequenceRecordResponse(s) ==
  /\ s \in Ids(sequences)
  /\ sequences' = [sequences EXCEPT ![s] = recordResponse(@, now)]
  /\ UNCHANGED <<now, leads, interactions, webhookLogs, notifications, outbox,
                 slackLog, queueVars, triggers, templates, requests, config, scoringFactors, scored, loop, integrations, answers>>

ActiveSequencesOf(leadId) ==
  {i \in Ids(sequences) : sequences[i].lead_id = leadId /\ sequences[i].active}

\* EmailSequence.findDue
findDue(t) ==
  {i \in Ids(sequences) :
     /\ sequences[i].active
     /\ sequences[i].next_send_at # Null
     /\ sequences[i].next_send_at <= t}

----------------------------------------------------------------------------
(* Lead intake: POST /leads, the webhooks, webhook replay *)

EnqueueKinds == {"email", "notification", "sync"}

\* the three follow-on jobs of a new lead; enq is the set of queue.add calls
\* that succeed (each call sits in its own try/catch)
FollowOnJobs(qs, leadId, lead, enq, t) ==
  LET q1 == IF "email" \in enq THEN QAdd(qs, addInstantEmailJob(leadId), t) ELSE qs
      q2 == IF isHighValue(lead) /\ "notification" \in enq
            THEN QAdd(q1, addHighValueNotification(leadId), t) ELSE q1
      q3 == IF "sync" \in enq
            THEN QAdd(q2, addIntegrationSync("zoho_crm", leadId), t) ELSE q2
  IN q3

\* the answer of a route to the request about lead or webhook record id:
\* ok is a 2xx status, otherwise the error handler answered
Answer(route, id, ok) == [route |-> route, id |-> id, ok |-> ok]

\* a POST /api/v2/leads that answers with the error and keeps no lead when
\* one of its queue.add calls fails, for comparison
PostLeadAllOrNothing(email, attrs, enq) ==
  /\ ~EmailTaken(email)
  /\ LET lead == NewLead(email, attrs, "website", now)
         id == Len(leads) + 1
         needed == IF isHighValue(lead) THEN EnqueueKinds
                   ELSE EnqueueKinds \ {"notification"}
     IN IF needed \subseteq enq
        THEN /\ leads' = Append(leads, lead)
             /\ SetQueues(FollowOnJobs(QS, id, lead, enq, now))
             /\ answers' = answers \cup {Answer("POST /leads", id, TRUE)}
        ELSE /\ answers' = answers \cup {Answer("POST /leads", id, FALSE)}
             /\ UNCHANGED <<leads, jobs, wait, completed, failed>>
  /\ UNCHANGED <<now, sequences, interactions, webhookLogs, notifications,
                 outbox, slackLog, nextRun, triggers, templates, requests, config,
                 scoringFactors, scored, loop, integrations>>

\* POST /api/v2/leads
PostLead(email, attrs, enq) ==
  /\ ~EmailTaken(email)
  /\ LET lead == NewLead(email, attrs, "website", now)
         id == Len(leads) + 1
     IN /\ leads' = Append(leads, lead)
        /\ SetQueues(FollowOnJobs(QS, id, lead, enq, now))
        /\ answers' = answers \cup {Answer("POST /leads", id, TRUE)}
  /\ UNCHANGED <<now, sequences, interactions, webhookLogs, notifications,
                 outbox, slackLog, nextRun, triggers, templates, requests, config, scoringFactors, scored, loop, integrations>>

DedupWindow == 24 * 60 * 60

\* a record that is stored as processed, for comparison
NewWebhookLogProcessed(source, eventType, email, attrs, t) ==
  [source |-> source, event_type |-> eventType, email |-> email,
   attrs |-> attrs, processed |-> TRUE, retry_count |-> 0, lead_id |-> 0,
   interaction_id |-> 0, created_at |-> t,
   message_id |-> 0, sig_ok |-> TRUE, ts_age |-> 0]

\* WebhookLog.createFromRequest: the row it stores
NewWebhookLog(source, eventType, email, attrs, t) ==
  [source |-> source, event_type |-> eventType, email |-> email,
   attrs |-> attrs, processed |-> FALSE, retry_count |-> 0, lead_id |-> 0,
   interaction_id |-> 0, created_at |-> t,
   message_id |-> 0, sig_ok |-> TRUE, ts_age |-> 0]

\* WebhookLog.prototype.markProcessed
markProcessed(w, leadId, interactionId) ==
  [w EXCEPT !.processed = TRUE,
            !.lead_id = IF leadId # 0 THEN leadId ELSE @,
            !.interaction_id = IF interactionId # 0 THEN interactionId ELSE @]

\* WebhookLog.prototype.markFailed
markFailed(w) == [w EXCEPT !.processed = FALSE, !.retry_count = @ + 1]

\* the form-submission route's leadData: no distance is taken from the form
FormLeadData(attrs) == [attrs EXCEPT !.distance_from_base = Undef]

RecentLeadsOf(email, t) ==
  {i \in Ids(leads) : leads[i].email = email /\ leads[i].created_at >= t - DedupWindow}

\* POST /api/v2/webhooks/form-submission; dbOk = FALSE: Lead.create throws
FormSubmission(email, attrs, dbOk, enq) ==
  LET log == NewWebhookLog("website_form", "form_submission", email, attrs, now)
      w == Len(webhookLogs) + 1
      dup == RecentLeadsOf(email, now)
  IN IF dup # {}
     THEN /\ webhookLogs' = Append(webhookLogs,
                                   markProcessed(log, CHOOSE i \in dup : TRUE, 0))
          /\ answers' = answers \cup {Answer("POST /form-submission", w, TRUE)}
          /\ UNCHANGED <<now, leads, sequences, interactions, notifications,
                         outbox, slackLog, queueVars, triggers, templates, requests, config, scoringFactors, scored, loop, integrations>>
     ELSE IF dbOk /\ ~EmailTaken(email)
     THEN LET lead == NewLead(email, FormLeadData(attrs), "website", now)
              id == Len(leads) + 1
          IN /\ leads' = Append(leads, lead)
             /\ webhookLogs' = Append(webhookLogs, markProcessed(log, id, 0))
             /\ SetQueues(FollowOnJobs(QS, id, lead, enq, now))
             /\ answers' = answers \cup {Answer("POST /form-submission", w, TRUE)}
             /\ UNCHANGED <<now, sequences, interactions, notifications, outbox,
                            slackLog, nextRun, triggers, templates, requests, config, scoringFactors, scored, loop, integrations>>
     ELSE \* the catch block logs the failure in a second record
          /\ webhookLogs' = webhookLogs \o
               << log,
                  markFailed(NewWebhookLog("website_form", "form_submission_failed",
                                           email, attrs, now)) >>
          /\ answers' = answers \cup {Answer("POST /form-submission", w, FALSE)}
          /\ UNCHANGED <<now, leads, sequences, interactions, notifications,
                         outbox, slackLog, queueVars, triggers, templates, requests, config, scoringFactors, scored, loop, integrations>>

\* the crm-updates route's leadData for lead_created
CrmLeadData(attrs) ==
  [attrs EXCEPT !.service_type = IF @ = "corporate" THEN "corporate" ELSE "airport",
                !.distance_from_base = Undef,
                !.passenger_count = Undef]

\* POST /api/v2/webhooks/crm-updates, event lead_created, for a record that
\* matches no lead
CrmLeadCreated(email, attrs) ==
  LET log == NewWebhookLog("zoho_crm", "lead_created", email, attrs, now)
  IN IF ~EmailTaken(email)
     THEN /\ leads' = Append(leads, NewLead(email, CrmLeadData(attrs), "zoho_crm", now))
          /\ webhookLogs' = Append(webhookLogs, markProcessed(log, Len(leads) + 1, 0))
          /\ UNCHANGED <<now, sequences, interactions, notifications, outbox,
                         slackLog, queueVars, triggers, templates, requests, config, scoringFactors, scored, loop, integrations, answers>>
     ELSE \* Lead.create throws, the route answers 500 and leaves the record
          /\ webhookLogs' = Append(webhookLogs, log)
          /\ UNCHANGED <<now, leads, sequences, interactions, notifications,
                         outbox, slackLog, queueVars, triggers, templates, requests, config, scoringFactors, scored, loop, integrations, answers>>

\* integrationQueue.add('webhook_replay', {webhookId})
AddWebhookReplay(w) ==
  /\ w \in Ids(webhookLogs)
  /\ SetQueues(QAdd(QS, [BaseJob("integration", "webhook_replay") EXCEPT
                           !.webhookId = w], now))
  /\ UNCHANGED <<now, dbVars, outbox, slackLog, nextRun, triggers, templates, requests, config, scoringFactors, scored, loop, integrations, answers>>

MaxRetries == 3

\* WebhookLog.prototype.extractLeadData for source website_form
extractLeadData(w) ==
  [company_name |-> w.attrs.company_name,
   estimated_value |-> IF w.attrs.estimated_value = Undef THEN 0
                       ELSE w.attrs.estimated_value,
   service_type |-> w.attrs.service_type,
   distance_from_base |-> Undef,
   passenger_count |-> Undef]

\* processWebhookReplay with replayFormSubmissionWebhook; dbOk = FALSE:
\* Lead.create throws inside the replay
processWebhookReplay(id, dbOk) ==
  /\ id \in Ids(jobs)
  /\ jobs[id].state = "active"
  /\ jobs[id].name = "webhook_replay"
  /\ LET w == jobs[id].webhookId
         log == webhookLogs[w]
         existing == {i \in Ids(leads) : leads[i].email = log.email}
     IN IF log.processed
        THEN /\ SetQueues(QComplete(QS, id, "skipped", now))
             /\ UNCHANGED <<leads, webhookLogs>>
        ELSE IF log.retry_count >= MaxRetries
        THEN /\ SetQueues(QComplete(QS, id, "abandoned", now))
             /\ UNCHANGED <<leads, webhookLogs>>
        ELSE IF log.source # "website_form"
        THEN \* replayCrmWebhook, replayEmailWebhook: placeholders
             /\ webhookLogs' = [webhookLogs EXCEPT ![w] = markProcessed(@, 0, 0)]
             /\ SetQueues(QComplete(QS, id, "completed", now))
             /\ UNCHANGED leads
        ELSE IF existing # {}
        THEN /\ webhookLogs' = [webhookLogs EXCEPT
                                  ![w] = markProcessed(@, CHOOSE i \in existing : TRUE, 0)]
             /\ SetQueues(QComplete(QS, id, "completed", now))
             /\ UNCHANGED leads
        ELSE IF dbOk
        THEN /\ leads' = Append(leads, NewLead(log.email, extractLeadData(log),
                                               "website", now))
             /\ webhookLogs' = [webhookLogs EXCEPT
                                  ![w] = markProcessed(@, Len(leads) + 1, 0)]
             /\ SetQueues(QComplete(QS, id, "completed", now))
        ELSE /\ webhookLogs' = [webhookLogs EXCEPT ![w] = markFailed(@)]
             /\ SetQueues(QComplete(QS, id, "failed", now))
             /\ UNCHANGED leads
  /\ UNCHANGED <<now, sequences, interactions, notifications, outbox, slackLog,
                 nextRun, triggers, templates, requests, config, scoringFactors, scored, loop, integrations, answers>>

----------------------------------------------------------------------------
(* E-mail processors (emailProcessor.js) *)

NewInteraction(leadId, type, automated, t) ==
  [lead_id |-> leadId, interaction_type |-> type, automated |-> automated,
   response_received |-> FALSE, created_at |-> t, completed_at |-> Null,
   email_opened_at |-> Null, email_clicked_at |-> Null, click_count |-> 0]

ResponseWindow == 24 * 60 * 60

\* the query of processSequenceStep: interactions of the lead created in the
\* last 24 hours that carry a response
recentInteractions(leadId, t) ==
  {i \in Ids(interactions) :
     /\ interactions[i].lead_id = leadId
     /\ interactions[i].response_received
     /\ interactions[i].created_at >= t - ResponseWindow}

\* the lead has a response that was recorded less than 24 hours ago
RespondedRecently(leadId, t) ==
  \E i \in Ids(interactions) :
     /\ interactions[i].lead_id = leadId
     /\ interactions[i].response_received
     /\ interactions[i].completed_at > t - ResponseWindow

\* one e-mail handed to emailService.sendEmail, with the lead's state then
Email(leadId, job, t) ==
  [lead_id |-> leadId, job |-> job, at |-> t,
   lead_status |-> leads[leadId].status,
   responded |-> RespondedRecently(leadId, t)]

\* the sequence processInstantResponse picks for a lead
SequenceTypeFor(lead) ==
  IF lead.lead_score >= 70 THEN "high_value_follow_up"
  ELSE IF lead.service_type = "corporate" THEN "corporate_nurture"
  ELSE IF lead.service_type = "wedding" THEN "wedding_follow_up"
  ELSE "standard_follow_up"

InstantOutcomes == {"no_template", "send_fail", "record_fail", "count_fail", "ok"}

\* processInstantResponse up to the query for the lead's active sequences:
\* template lookup, sendEmail, LeadInteraction.create, incrementSentCount,
\* EmailSequence.findAll
InstantResponseSend(id, outcome) ==
  /\ id \in Ids(jobs)
  /\ jobs[id].state = "active"
  /\ jobs[id].name = "instant_response"
  /\ jobs[id].pc = "start"
  /\ LET l == jobs[id].leadId
         mail == Email(l, "instant_response", now)
         done == NewInteraction(l, "email_sent", TRUE, now)
     IN CASE outcome = "no_template" ->
               /\ SetQueues(QComplete(QS, id, "skipped", now))
               /\ UNCHANGED <<outbox, interactions>>
          [] outcome = "send_fail" ->
               /\ SetQueues(QFail(QS, id, now))
               /\ UNCHANGED <<outbox, interactions>>
          [] outcome = "record_fail" ->
               /\ outbox' = Append(outbox, mail)
               /\ SetQueues(QFail(QS, id, now))
               /\ UNCHANGED interactions
          [] outcome = "count_fail" ->
               /\ outbox' = Append(outbox, mail)
               /\ interactions' = Append(interactions, done)
               /\ SetQueues(QFail(QS, id, now))
          [] outcome = "ok" ->
               /\ outbox' = Append(outbox, mail)
               /\ interactions' = Append(interactions, done)
               /\ jobs' = [jobs EXCEPT ![id].pc = "checked",
                                       ![id].sawActive = ActiveSequencesOf(l) # {}]
               /\ UNCHANGED <<wait, completed, failed>>
  /\ UNCHANGED <<now, leads, sequences, webhookLogs, notifications, slackLog,
                 nextRun, triggers, templates, requests, config, scoringFactors, scored, loop, integrations, answers>>

\* the rest of processInstantResponse: create the follow-up sequence when
\* the query found none; dbOk = FALSE: createStandardSequence throws
InstantResponseSequence(id, dbOk) ==
  /\ id \in Ids(jobs)
  /\ jobs[id].state = "active"
  /\ jobs[id].name = "instant_response"
  /\ jobs[id].pc = "checked"
  /\ LET l == jobs[id].leadId
     IN IF jobs[id].sawActive
        THEN /\ SetQueues(QComplete(QS, id, "sent", now))
             /\ UNCHANGED sequences
        ELSE IF dbOk
        THEN /\ sequences' = Append(sequences,
                 createStandardSequence(l, SequenceTypeFor(leads[l]), now))
             /\ SetQueues(QComplete(QS, id, "sent", now))
        ELSE /\ SetQueues(QFail(QS, id, now))
             /\ UNCHANGED sequences
  /\ UNCHANGED <<now, leads, interactions, webhookLogs, notifications, outbox,
                 slackLog, nextRun, triggers, templates, requests, config, scoringFactors, scored, loop, integrations, answers>>

FollowUpOutcomes == {"no_template", "off_hours", "send_fail", "record_fail", "ok"}

\* processFollowUp after its test of the lead's status
FollowUpWithoutStatusCheck(leadId, outcome) ==
  CASE outcome = "no_template" -> [status |-> "error", emailed |-> FALSE, recorded |-> FALSE]
    [] outcome = "off_hours" -> [status |-> "rescheduled", emailed |-> FALSE, recorded |-> FALSE]
    [] outcome = "send_fail" -> [status |-> "error", emailed |-> FALSE, recorded |-> FALSE]
    [] outcome = "record_fail" -> [status |-> "error", emailed |-> TRUE, recorded |-> FALSE]
    [] outcome = "ok" -> [status |-> "sent", emailed |-> TRUE, recorded |-> TRUE]

\* what processFollowUp does for a lead: its result (status "error": it
\* throws), whether the e-mail went out and whether the interaction was stored.
\* off_hours: the template is for business hours only and it is not one
FollowUp(leadId, outcome) ==
  IF leads[leadId].status \in ClosedStatuses
  THEN [status |-> "skipped", emailed |-> FALSE, recorded |-> FALSE]
  ELSE FollowUpWithoutStatusCheck(leadId, outcome)

\* the effect of processFollowUp on the outbox and the interactions
FollowUpEffects(r, leadId, jobName) ==
  /\ outbox' = IF r.emailed THEN Append(outbox, Email(leadId, jobName, now))
               ELSE outbox
  /\ interactions' = IF r.recorded
                     THEN Append(interactions,
                                 NewInteraction(leadId, "email_sent", TRUE, now))
                     ELSE interactions

\* processFollowUp as the processor of follow_up jobs
processFollowUp(id, outcome) ==
  /\ id \in Ids(jobs)
  /\ jobs[id].state = "active"
  /\ jobs[id].name = "follow_up"
  /\ LET l == jobs[id].leadId
         r == FollowUp(l, outcome)
     IN /\ FollowUpEffects(r, l, "follow_up")
        /\ IF r.status = "error"
           THEN SetQueues(QFail(QS, id, now))
           ELSE SetQueues(QComplete(QS, id, r.status, now))
  /\ UNCHANGED <<now, leads, sequences, webhookLogs, notifications, slackLog,
                 nextRun, triggers, templates, requests, config, scoringFactors, scored, loop, integrations, answers>>

\* a sequence that records and advances whatever the follow-up did, for
\* comparison
StepProgressWhateverTheResult(seq, r, t) == advance(recordEmailSent(seq), t)

\* what processSequenceStep does to the sequence after processFollowUp
\* returned r
StepProgress(seq, r, t) ==
  IF r.status = "sent" THEN advance(recordEmailSent(seq), t) ELSE seq

\* processSequenceStep
processSequenceStep(id, outcome) ==
  /\ id \in Ids(jobs)
  /\ jobs[id].state = "active"
  /\ jobs[id].name = "sequence_step"
  /\ LET s == jobs[id].seqId
         seq == sequences[s]
         l == seq.lead_id
         r == FollowUp(l, outcome)
     IN IF ~seq.active
        THEN /\ SetQueues(QComplete(QS, id, "skipped", now))
             /\ UNCHANGED <<sequences, outbox, interactions>>
        ELSE IF leads[l].status \in ClosedStatuses
        THEN /\ sequences' = [sequences EXCEPT ![s] = complete(@, now)]
             /\ SetQueues(QComplete(QS, id, "completed", now))
             /\ UNCHANGED <<outbox, interactions>>
        ELSE IF recentInteractions(l, now) # {}
        THEN /\ sequences' = [sequences EXCEPT ![s] = pause(@, "customer_responded")]
             /\ SetQueues(QComplete(QS, id, "paused", now))
             /\ UNCHANGED <<outbox, interactions>>
        ELSE IF seq.current_step > 4
        THEN \* no template name for this step
             /\ sequences' = [sequences EXCEPT ![s] = complete(@, now)]
             /\ SetQueues(QComplete(QS, id, "completed", now))
             /\ UNCHANGED <<outbox, interactions>>
        ELSE /\ FollowUpEffects(r, l, "sequence_step")
             /\ sequences' = [sequences EXCEPT ![s] = StepProgress(@, r, now)]
             /\ IF r.status = "error"
                THEN SetQueues(QFail(QS, id, now))
                ELSE SetQueues(QComplete(QS, id, "step_completed", now))
  /\ UNCHANGED <<now, leads, webhookLogs, notifications, slackLog, nextRun,
                 triggers, templates, requests, config, scoringFactors, scored, loop, integrations, answers>>

\* LeadInteraction.prototype.recordResponse on a stored interaction
RecordResponse(i) ==
  /\ i \in Ids(interactions)
  /\ interactions' = [interactions EXCEPT ![i].response_received = TRUE,
                                          ![i].completed_at = now]
  /\ UNCHANGED <<now, leads, sequences, webhookLogs, notifications, outbox,
                 slackLog, queueVars, triggers, templates, requests, config, scoringFactors, scored, loop, integrations, answers>>

----------------------------------------------------------------------------
(* The response-time scan (analyticsProcessor.js, processResponseTimeMetrics) *)

OverdueAfter == 10 * 60

\* the automated e-mail that was the first e-mail to the lead, if there is one
FirstResponses(l) ==
  {i \in Ids(interactions) :
     /\ interactions[i].lead_id = l
     /\ interactions[i].interaction_type = "email_sent"
     /\ interactions[i].automated
     /\ \A k \in Ids(interactions) :
          (interactions[k].lead_id = l /\ interactions[k].interaction_type = "email_sent")
            => interactions[i].created_at <= interactions[k].created_at}

\* seconds from the lead's creation to its first automated e-mail
ResponseSeconds(l) ==
  LET i == CHOOSE i \in FirstResponses(l) : TRUE
  IN interactions[i].created_at - leads[l].created_at

RECURSIVE SumResponseSeconds(_)
SumResponseSeconds(ls) ==
  IF ls = {} THEN 0
  ELSE LET l == CHOOSE l \in ls : TRUE
       IN ResponseSeconds(l) + SumResponseSeconds(ls \ {l})

\* the leads Lead.findAll returns: status new, created more than 10 minutes
\* ago, the oldest first, at most limit of them
RECURSIVE OverdueLeads(_, _)
OverdueLeads(candidates, limit) ==
  IF candidates = {} \/ limit = 0 THEN <<>>
  ELSE LET l == CHOOSE l \in candidates :
                  \A k \in candidates :
                    \/ leads[l].created_at < leads[k].created_at
                    \/ (leads[l].created_at = leads[k].created_at /\ l <= k)
       IN <<l>> \o OverdueLeads(candidates \ {l}, limit - 1)

\* the system alerts of one scan
SystemAlerts(t) ==
  LET recent == {l \in Ids(leads) : leads[l].created_at >= t - 24 * 3600}
      responded == {l \in recent : FirstResponses(l) # {}}
      total == SumResponseSeconds(responded)
      under5 == {l \in responded : ResponseSeconds(l) <= 5 * 60}
      overdue == {l \in recent : leads[l].status = "new"
                                   /\ leads[l].created_at < t - OverdueAfter}
  IN (IF responded # {} /\ total > 5 * 60 * Cardinality(responded)
      THEN <<[kind |-> "response_time_violation", lead_id |-> 0, minutes |-> 0, at |-> t]>>
      ELSE <<>>)
     \o (IF overdue # {}
         THEN <<[kind |-> "overdue_responses", lead_id |-> 0, minutes |-> 0, at |-> t]>>
         ELSE <<>>)
     \o (IF Cardinality(under5) * 100 < 80 * Cardinality(responded)
            /\ Cardinality(responded) >= 5
         THEN <<[kind |-> "low_performance_rate", lead_id |-> 0, minutes |-> 0, at |-> t]>>
         ELSE <<>>)

\* the warnings of one scan, one for each overdue lead
ResponseTimeWarnings(t) ==
  LET recent == {l \in Ids(leads) : leads[l].created_at >= t - 24 * 3600}
      counted == {l \in recent : leads[l].status = "new"
                                   /\ leads[l].created_at < t - OverdueAfter}
      found == OverdueLeads({l \in Ids(leads) :
                               leads[l].status = "new"
                                 /\ leads[l].created_at < t - OverdueAfter}, 5)
  IN IF counted = {} THEN <<>>
     ELSE [i \in 1..Len(found) |->
             [kind |-> "response_time_warning", lead_id |-> found[i],
              minutes |-> (t - leads[found[i]].created_at) \div 60, at |-> t]]

\* processResponseTimeMetrics; dbOk = FALSE: a query throws; slackOk = FALSE:
\* the calls of slackService throw, which the scan logs and ignores
processResponseTimeMetrics(id, dbOk, slackOk) ==
  /\ id \in Ids(jobs)
  /\ jobs[id].state = "active"
  /\ jobs[id].name = "response_time_metrics"
  /\ IF dbOk
     THEN /\ slackLog' = IF slackOk
                         THEN slackLog \o SystemAlerts(now) \o ResponseTimeWarnings(now)
                         ELSE slackLog
          /\ SetQueues(QComplete(QS, id, "completed", now))
     ELSE /\ SetQueues(QFail(QS, id, now))
          /\ UNCHANGED slackLog
  /\ UNCHANGED <<now, dbVars, outbox, nextRun, triggers, templates, requests, config, scoringFactors, scored, loop, integrations, answers>>

----------------------------------------------------------------------------
(* Routes that act on leads and sequences *)

Statuses == {"new", "contacted", "qualified", "converted", "lost"}

\* PUT /api/v2/leads/:leadId with the validated body updates
PutLeadWith(l, updates) ==
  /\ l \in Ids(leads)
  /\ leads' = [leads EXCEPT ![l] = leadUpdate(@, updates)]
  /\ IF "status" \in DOMAIN updates /\ updates.status # leads[l].status
     THEN /\ interactions' = Append(interactions,
              NewInteraction(l, IF updates.status = "converted" THEN "meeting_scheduled"
                                ELSE "call_made", FALSE, now))
          /\ sequences' =
               IF updates.status \in ClosedStatuses
               THEN [i \in Ids(sequences) |->
                       IF sequences[i].lead_id = l /\ sequences[i].active
                       THEN [sequences[i] EXCEPT !.active = FALSE,
                                                 !.completed_at = now]
                       ELSE sequences[i]]
               ELSE sequences
          /\ SetQueues(QAdd(QS, addIntegrationSync("zoho_crm", l), now))
     ELSE UNCHANGED <<interactions, sequences, jobs, wait, completed, failed>>
  /\ UNCHANGED <<now, webhookLogs, notifications, outbox, slackLog, nextRun,
                 triggers, templates, requests, config, scoringFactors, scored, loop, integrations, answers>>

\* PUT /api/v2/leads/:leadId with a status
PutLead(l, status) == PutLeadWith(l, [status |-> status])

\* POST /api/v2/automation/trigger, instant_response
TriggerInstantResponse(l) ==
  /\ l \in Ids(leads)
  /\ SetQueues(QAdd(QS, addInstantEmailJob(l), now))
  /\ UNCHANGED <<now, dbVars, outbox, slackLog, nextRun, triggers, templates, requests, config, scoringFactors, scored, loop, integrations, answers>>

\* POST /api/v2/automation/trigger, follow_up_sequence: the query for an
\* active sequence of the lead (saw = 0: none)
TriggerSequenceRead(l) ==
  /\ l \in Ids(leads)
  /\ \E saw \in (IF ActiveSequencesOf(l) = {} THEN {0} ELSE ActiveSequencesOf(l)) :
       triggers' = triggers \cup {[lead |-> l, saw |-> saw]}
  /\ UNCHANGED <<now, dbVars, outbox, slackLog, queueVars, templates, requests, config, scoringFactors, scored, loop, integrations, answers>>

\* ... and what it does with the answer: resume the sequence it found (a
\* save that writes the changed next_send_at) or create one
TriggerSequenceWrite(tr) ==
  /\ tr \in triggers
  /\ triggers' = triggers \ {tr}
  /\ sequences' =
       IF tr.saw # 0
       THEN [sequences EXCEPT ![tr.saw] =
               [@ EXCEPT !.next_send_at =
                           calculateNextSendTime(sequences[tr.saw], now).next_send_at]]
       ELSE Append(sequences,
                   createStandardSequence(tr.lead,
                     IF leads[tr.lead].lead_score >= 70 THEN "high_value_follow_up"
                     ELSE "standard_follow_up", now))
  /\ UNCHANGED <<now, leads, interactions, webhookLogs, notifications, outbox,
                 slackLog, queueVars, templates, requests, config, scoringFactors, scored, loop, integrations, answers>>

\* emailQueue.add through the exported helpers
AddFollowUp(l, delaySeconds) ==
  /\ l \in Ids(leads)
  /\ SetQueues(QAdd(QS, addFollowUpEmailJob(l, delaySeconds), now))
  /\ UNCHANGED <<now, dbVars, outbox, slackLog, nextRun, triggers, templates, requests, config, scoringFactors, scored, loop, integrations, answers>>

AddSequenceStep(s) ==
  /\ s \in Ids(sequences)
  /\ SetQueues(QAdd(QS, addSequenceStepJob(s), now))
  /\ UNCHANGED <<now, dbVars, outbox, slackLog, nextRun, triggers, templates, requests, config, scoringFactors, scored, loop, integrations, answers>>

----------------------------------------------------------------------------
(* Time: the clock advances; delayed jobs whose time has come and the      *)
(* repetitions of the recurring jobs enter their wait lists                 *)

RecurringRank(name) ==
  CASE name = "daily_metrics" -> 1
    [] name = "response_time_metrics" -> 2
    [] name = "health_check" -> 3
    [] name = "process_sequences" -> 4

RECURSIVE AddRepetitions(_, _, _)
AddRepetitions(qs, names, t) ==
  IF names = {} THEN qs
  ELSE LET n == CHOOSE n \in names :
                  \A m \in names : RecurringRank(n) <= RecurringRank(m)
       IN AddRepetitions(QAdd(qs, RecurringJob(n), t), names \ {n}, t)

\* d seconds pass; recur: the recurring jobs that are scheduled
Tick(d, recur) ==
  /\ d > 0
  /\ now' = now + d
  /\ LET fire == {n \in recur : nextRun[n] <= now'}
     IN /\ SetQueues(QPromoteDue(AddRepetitions(QS, fire, now'), now'))
        /\ nextRun' = [n \in Recurring |->
                         IF n \in fire
                         THEN ((now' \div RecurringPeriod(n)) + 1) * RecurringPeriod(n)
                         ELSE nextRun[n]]
  /\ UNCHANGED <<dbVars, outbox, slackLog, triggers, templates, requests, config, scoringFactors, scored, loop, integrations, answers>>

\* the state after start-up under environment env (NODE_ENV, the webhook
\* secrets)
InitWith(env) ==
  /\ now = 0
  /\ leads = <<>>
  /\ sequences = <<>>
  /\ interactions = <<>>
  /\ webhookLogs = <<>>
  /\ outbox = <<>>
  /\ slackLog = <<>>
  /\ notifications = <<>>
  /\ jobs = <<>>
  /\ wait = [q \in Queues |-> <<>>]
  /\ completed = [q \in Queues |-> <<>>]
  /\ failed = [q \in Queues |-> <<>>]
  /\ nextRun = [n \in Recurring |-> RecurringPeriod(n)]
  /\ triggers = {}
  /\ templates = [opened_count |-> 0, clicked_count |-> 0]
  /\ requests = {}
  /\ config = env
  /\ scoringFactors = [n \in {} |-> 0]
  /\ scored = [by |-> "none", lead |-> CHOOSE l \in LeadInputs : TRUE, score |-> 0]
  /\ loop = [pc |-> "idle", started |-> 0, next |-> 0, iterations |-> 0]
  /\ integrations = [n \in {} |-> 0]
  /\ answers = {}

\* production with the webhook secrets set
Init == InitWith([development |-> FALSE, secret |-> TRUE])

----------------------------------------------------------------------------
(* Intake: the four ways a lead is created, with every queue.add succeeding *)

IntakeInputs == {a \in LeadInputs : a.company_name = ""}

NextIntake ==
  \/ \E e \in Emails, a \in IntakeInputs :
       PostLead(e, a, EnqueueKinds) /\ Len(jobs') <= MaxJobs
  \/ \E e \in Emails, a \in IntakeInputs, dbOk \in BOOLEAN :
       /\ FormSubmission(e, a, dbOk, EnqueueKinds)
       /\ Len(jobs') <= MaxJobs
       /\ Len(webhookLogs') <= MaxWebhookLogs
  \/ \E e \in Emails, a \in IntakeInputs :
       CrmLeadCreated(e, a) /\ Len(webhookLogs') <= MaxWebhookLogs
  \/ \E w \in Ids(webhookLogs) :
       /\ ~webhookLogs[w].processed
       /\ \A j \in Ids(jobs) : jobs[j].webhookId # w
       /\ AddWebhookReplay(w)
       /\ Len(jobs') <= MaxJobs
  \/ StartJob("integration")
  \/ \E j \in Ids(jobs), dbOk \in BOOLEAN : processWebhookReplay(j, dbOk)
  \/ \E j \in Ids(jobs) : MissingHandler(j)

SpecIntake == Init /\ [][NextIntake]_vars

\* C1: every lead that exists has an instant_response job of priority 1 in
\* the email queue that was added for it
C1_EveryLeadHasInstantJob ==
  \A l \in Ids(leads) :
    \E j \in Ids(jobs) :
      /\ jobs[j].queue = "email"
      /\ jobs[j].name = "instant_response"
      /\ jobs[j].leadId = l
      /\ jobs[j].priority = 1

----------------------------------------------------------------------------
(* Notification processors (notificationProcessor.js) *)

\* processSlackNotification; ok = FALSE: slackService.sendMessage throws
processSlackNotification(id, ok) ==
  /\ id \in Ids(jobs)
  /\ jobs[id].state = "active"
  /\ jobs[id].name = "slack_notification"
  /\ IF ok
     THEN /\ slackLog' = Append(slackLog, [kind |-> "message", lead_id |-> 0, minutes |-> 0,
                                       at |-> now])
          /\ SetQueues(QComplete(QS, id, "sent", now))
     ELSE /\ SetQueues(QFail(QS, id, now))
          /\ UNCHANGED slackLog
  /\ UNCHANGED <<now, dbVars, outbox, nextRun, triggers, templates, requests, config, scoringFactors, scored, loop, integrations, answers>>

\* notificationQueue.add through the exported helper
AddSlackNotification(priority) ==
  /\ SetQueues(QAdd(QS, addSlackNotification(priority), now))
  /\ UNCHANGED <<now, dbVars, outbox, slackLog, nextRun, triggers, templates, requests, config, scoringFactors, scored, loop, integrations, answers>>

\* the times at which a timer of the queues goes off next
Timers(recur) ==
  {jobs[i].delayUntil : i \in {k \in Ids(jobs) : jobs[k].state = "delayed"}}
    \cup {nextRun[n] : n \in recur}

\* the clock runs to the next timer
TickToNext(recur) ==
  \E t \in Timers(recur) :
    /\ t > now
    /\ \A u \in Timers(recur) : u > now => t <= u
    /\ Tick(t - now, recur)

----------------------------------------------------------------------------
(* The e-mail and the notification queue at work: jobs are added in any    *)
(* order, workers take them, handlers succeed or throw                      *)

NextQueue ==
  \/ PostLead("a@x", CHOOSE a \in IntakeInputs : TRUE, {"email"})
  \/ \E l \in Ids(leads) : TriggerInstantResponse(l) /\ Len(jobs') <= MaxQueueJobs
  \/ \E l \in Ids(leads), d \in {0, 60} :
       AddFollowUp(l, d) /\ Len(jobs') <= MaxQueueJobs
  \/ \E s \in Ids(sequences) : AddSequenceStep(s) /\ Len(jobs') <= MaxQueueJobs
  \/ \E p \in {1, 5} : AddSlackNotification(p) /\ Len(jobs') <= MaxQueueJobs
  \/ StartJob("email")
  \/ StartJob("notification")
  \/ \E j \in Ids(jobs) : InstantResponseSend(j, "ok")
  \/ \E j \in Ids(jobs) : InstantResponseSequence(j, TRUE)
  \/ \E j \in Ids(jobs) : processFollowUp(j, "ok")
  \/ \E j \in Ids(jobs) : processSequenceStep(j, "ok")
  \/ \E j \in Ids(jobs) : processSlackNotification(j, TRUE)
  \/ TickToNext({})

SpecQueue == Init /\ [][NextQueue]_vars

\* C2: the job a worker takes has the lowest priority number of the jobs
\* waiting in its queue (a job without a priority comes after every job with
\* one), whatever the order they were added in; so no follow_up or
\* sequence_step job is started while an instant_response job waits
C2_LowerPriorityNumberFirst ==
  [][\A id \in Ids(jobs) :
       (jobs[id].state = "waiting" /\ jobs'[id].state = "active") =>
         \A k \in Ids(jobs) :
           (k # id /\ jobs[k].state = "waiting" /\ jobs[k].queue = jobs[id].queue) =>
             /\ jobs[k].priority > 0 =>
                  (jobs[id].priority > 0 /\ jobs[id].priority <= jobs[k].priority)
             /\ jobs[id].name \in {"follow_up", "sequence_step"} =>
                  jobs[k].name # "instant_response"]_vars

\* an instant_response job is running that was added after a follow_up or a
\* sequence_step job which is still waiting
C2_Witness ==
  \E i \in Ids(jobs), k \in Ids(jobs) :
    /\ jobs[i].name = "instant_response" /\ jobs[i].state = "active"
    /\ jobs[k].name \in {"follow_up", "sequence_step"}
    /\ jobs[k].state = "waiting" /\ k < i

----------------------------------------------------------------------------
(* Retries: handlers that throw, the backoff timers, the attempts running   *)
(* out                                                                      *)

NextRetry ==
  \/ PostLead("a@x", CHOOSE a \in IntakeInputs : TRUE, {"email"})
       /\ Len(jobs') <= MaxRetryJobs
  \/ \E l \in Ids(leads) :
       /\ \A j \in Ids(jobs) : jobs[j].name # "follow_up"
       /\ AddFollowUp(l, 0)
       /\ Len(jobs') <= MaxRetryJobs
  \/ /\ \A j \in Ids(jobs) : jobs[j].name # "slack_notification"
     /\ AddSlackNotification(5)
     /\ Len(jobs') <= MaxRetryJobs
  \/ StartJob("email")
  \/ StartJob("notification")
  \/ \E j \in Ids(jobs) : InstantResponseSend(j, "send_fail")
  \/ \E j \in Ids(jobs) : processFollowUp(j, "send_fail")
  \/ \E j \in Ids(jobs) : processSlackNotification(j, FALSE)
  \/ TickToNext({})

SpecRetry == Init /\ [][NextRetry]_vars

\* C3: a job is run at most max_attempts times (5 for instant_response, 2 for
\* slack_notification, 3 for every other job), a job is failed only when all
\* of them failed and is failed when all of them failed, and a failed job is
\* never run again
C3_AtMostMaxAttempts ==
  /\ [](\A j \in Ids(jobs) :
          LET max == IF jobs[j].name = "instant_response" THEN 5
                     ELSE IF jobs[j].name = "slack_notification" THEN 2
                     ELSE 3
          IN /\ jobs[j].runs <= max
             /\ jobs[j].attemptsMade <= jobs[j].runs
             /\ jobs[j].state = "failed" => jobs[j].attemptsMade = max
             /\ jobs[j].attemptsMade = max => jobs[j].state \in {"failed", "removed"})
  /\ [][\A j \in Ids(jobs) :
          jobs[j].state \in {"failed", "removed"} =>
            /\ jobs'[j].state \in {"failed", "removed"}
            /\ jobs'[j].runs = jobs[j].runs]_vars

\* an instant_response job failed after 5 runs and a slack_notification job
\* after 2
C3_Witness ==
  \E i \in Ids(jobs), k \in Ids(jobs) :
    /\ jobs[i].name = "instant_response" /\ jobs[i].state = "failed"
    /\ jobs[i].runs = 5
    /\ jobs[k].name = "slack_notification" /\ jobs[k].state = "failed"
    /\ jobs[k].runs = 2

----------------------------------------------------------------------------
(* Retention: the sync job of a new lead (no processor is registered under  *)
(* its name), Slack notifications that are sent or not, the recurring       *)
(* health check, cleanupQueues, and days passing while the queues are idle  *)

\* no job is waiting for a worker or running
QueuesIdle ==
  \A j \in Ids(jobs) : jobs[j].state \notin {"waiting", "active"}

NextRetention ==
  \/ \E a \in IntakeInputs :
       QueuesIdle /\ PostLead("a@x", a, {"sync"}) /\ Len(jobs') <= MaxRetentionJobs
  \/ /\ QueuesIdle
     /\ \A j \in Ids(jobs) : jobs[j].name # "slack_notification"
     /\ AddSlackNotification(5)
     /\ Len(jobs') <= MaxRetentionJobs
  \/ StartJob("integration")
  \/ StartJob("notification")
  \/ \E j \in Ids(jobs) : MissingHandler(j)
  \/ \E j \in Ids(jobs), ok \in BOOLEAN : processSlackNotification(j, ok)
  \/ cleanupQueues
  \/ QueuesIdle /\ TickToNext({"health_check"}) /\ Len(jobs') <= MaxRetentionJobs
  \/ QueuesIdle /\ Tick(4 * Day, {}) /\ now' <= MaxRetentionDays * Day

SpecRetention == Init /\ [][NextRetention]_vars

----------------------------------------------------------------------------
(* A burst in another queue: MaxBurst jobs are added to the notification or *)
(* the integration queue at once and their handlers take for ever, while    *)
(* the e-mail queue works.  The workers of the e-mail queue are scheduled   *)
(* fairly and its handlers return or throw.                                  *)

RECURSIVE QAddMany(_, _, _, _)
QAddMany(qs, job, n, t) ==
  IF n = 0 THEN qs ELSE QAddMany(QAdd(qs, job, t), job, n - 1, t)

\* n jobs are added to one queue, one queue.add after the other
AddBurst(queue, n) ==
  /\ SetQueues(QAddMany(QS, IF queue = "notification" THEN addSlackNotification(5)
                            ELSE addIntegrationSync("zoho_crm", 0), n, now))
  /\ UNCHANGED <<now, dbVars, outbox, slackLog, nextRun, triggers, templates, requests, config, scoringFactors, scored, loop, integrations, answers>>

EmailJobs == {j \in Ids(jobs) : jobs[j].queue = "email"}

EmailHandlers ==
  \/ \E j \in Ids(jobs) : InstantResponseSend(j, "ok")
  \/ \E j \in Ids(jobs) : InstantResponseSequence(j, TRUE)
  \/ \E j \in Ids(jobs) : processFollowUp(j, "ok")

NextLive ==
  \/ \E q \in {"notification", "integration"} :
       /\ \A j \in Ids(jobs) : jobs[j].queue = "email"
       /\ AddBurst(q, MaxBurst)
  \/ /\ Cardinality(EmailJobs) < MaxLiveJobs
     /\ PostLead("a@x", CHOOSE a \in IntakeInputs : TRUE, {"email"})
  \/ \E l \in Ids(leads) :
       Cardinality(EmailJobs) < MaxLiveJobs /\ TriggerInstantResponse(l)
  \/ \E l \in Ids(leads) :
       Cardinality(EmailJobs) < MaxLiveJobs /\ AddFollowUp(l, 0)
  \/ StartJob("notification")
  \/ StartJob("integration")
  \/ StartJob("email")
  \/ EmailHandlers

SpecLive ==
  /\ Init
  /\ [][NextLive]_vars
  /\ WF_vars(StartJob("email"))
  /\ WF_vars(EmailHandlers)

\* C5: whatever is waiting or running in the other queues, time and again
\* no instant_response job is left waiting in the e-mail queue: every one
\* that waits is started
C5_InstantResponseStarted ==
  []<>(\A j \in Ids(jobs) :
         ~(jobs[j].name = "instant_response" /\ jobs[j].state = "waiting"))

\* an instant_response job that was added after the burst is running while
\* every worker of the integration queue is busy and more of its jobs wait
C5_Witness ==
  /\ \E j \in Ids(jobs) :
       /\ jobs[j].name = "instant_response" /\ jobs[j].state = "active"
       /\ j > MaxBurst
  /\ Cardinality(ActiveJobs("integration")) = Concurrency("integration")
  /\ wait["integration"] # <<>>

----------------------------------------------------------------------------
(* The response-time commitment: leads come in, the instant response is     *)
(* sent or not, staff take a lead on, and the scan runs every 15 minutes    *)

NextSla ==
  \/ \E e \in Emails, a \in IntakeInputs :
       PostLead(e, a, {"email"}) /\ Len(jobs') <= MaxSlaJobs
  \/ \E l \in Ids(leads) :
       PutLead(l, "contacted") /\ Len(jobs') <= MaxSlaJobs
  \/ StartJob("email")
  \/ \E j \in Ids(jobs) : InstantResponseSend(j, "ok")
  \/ \E j \in Ids(jobs) : InstantResponseSequence(j, TRUE)
  \/ StartJob("analytics")
  \/ \E j \in Ids(jobs), dbOk \in BOOLEAN, slackOk \in BOOLEAN :
       processResponseTimeMetrics(j, dbOk, slackOk)
  \/ /\ \A j \in Ids(jobs) : jobs[j].state \notin {"waiting", "active"}
     /\ TickToNext({"response_time_metrics"})
     /\ Len(jobs') <= MaxSlaJobs

SpecSla == Init /\ [][NextSla]_vars

\* C6: for a lead that is still new, a scan that finished after the lead
\* passed 5 minutes means exactly one urgent notification of the lead (one
\* raised before it had waited 10 minutes), a scan that finished after it
\* passed 10 minutes means exactly one critical notification as well, no
\* scan past a threshold means no notification of that level, and every
\* notification has its response_time_alert job in the notification queue
C6_NotificationOncePerThreshold ==
  \A l \in Ids(leads) :
    leads[l].status = "new" =>
      LET scansAfter(th) ==
            {j \in Ids(jobs) :
               /\ jobs[j].name = "response_time_metrics"
               /\ jobs[j].result = "completed"
               /\ jobs[j].finishedOn > leads[l].created_at + th}
          raised == {n \in Ids(notifications) :
                       /\ notifications[n].lead_id = l
                       /\ notifications[n].notification_type = "response_needed"}
          urgent == {n \in raised : notifications[n].minutes < 10}
          critical == {n \in raised : notifications[n].minutes >= 10}
          dispatched == {j \in Ids(jobs) :
                           /\ jobs[j].queue = "notification"
                           /\ jobs[j].name = "response_time_alert"
                           /\ jobs[j].leadId = l}
      IN /\ Cardinality(urgent) = IF scansAfter(5 * 60) = {} THEN 0 ELSE 1
         /\ Cardinality(critical) = IF scansAfter(10 * 60) = {} THEN 0 ELSE 1
         /\ Cardinality(dispatched) = Cardinality(raised)

----------------------------------------------------------------------------
(* Sequences of one lead: its instant_response job, manual triggers of the  *)
(* instant response and of the follow-up sequence, and sequence steps, with *)
(* the workers of the e-mail queue running side by side                     *)

NextRace ==
  \/ PostLead("a@x", CHOOSE a \in IntakeInputs : TRUE, {"email"})
  \/ \E l \in Ids(leads) : TriggerInstantResponse(l) /\ Len(jobs') <= MaxRaceJobs
  \/ \E l \in Ids(leads) : triggers = {} /\ TriggerSequenceRead(l)
  \/ \E tr \in triggers : TriggerSequenceWrite(tr) /\ Len(sequences') <= MaxSeqs
  \/ \E q \in Ids(sequences) : AddSequenceStep(q) /\ Len(jobs') <= MaxRaceJobs
  \/ StartJob("email")
  \/ \E j \in Ids(jobs) : InstantResponseSend(j, "ok")
  \/ \E j \in Ids(jobs) :
       InstantResponseSequence(j, TRUE) /\ Len(sequences') <= MaxSeqs
  \/ \E j \in Ids(jobs) : processSequenceStep(j, "ok")

SpecRace == Init /\ [][NextRace]_vars

\* C7: no lead has more than one active sequence
C7_AtMostOneActiveSequence ==
  \A l \in Ids(leads) : Cardinality(ActiveSequencesOf(l)) <= 1

----------------------------------------------------------------------------
(* The sequence model on its own: sequences are created for a lead and the  *)
(* instance methods are called on them in any order                         *)

NextSeq ==
  \/ \E a \in LeadInputs : PostLead("a@x", a, {})
  \/ \E l \in Ids(leads) : triggers = {} /\ TriggerSequenceRead(l)
  \/ \E tr \in triggers : TriggerSequenceWrite(tr) /\ Len(sequences') <= MaxModelSeqs
  \/ \E q \in Ids(sequences) : SequenceAdvance(q)
  \/ \E q \in Ids(sequences) : SequenceComplete(q)
  \/ \E q \in Ids(sequences) : SequencePause(q, "manual")
  \/ \E q \in Ids(sequences) : SequenceResume(q)
  \/ \E q \in Ids(sequences) :
       sequences[q].responses_received < MaxResponses /\ SequenceRecordResponse(q)

SpecSeq == Init /\ [][NextSeq]_vars

\* C8: the current step of every sequence is between 1 and its total steps,
\* and advance() on a sequence at its last step leaves the step as it is and
\* completes the sequence: inactive, completed_at set, next_send_at null
C8_StepWithinTotal ==
  /\ [](\A q \in Ids(sequences) :
          /\ 1 <= sequences[q].current_step
          /\ sequences[q].current_step <= sequences[q].total_steps)
  /\ [][\A q \in Ids(sequences) :
          (SequenceAdvance(q)
             /\ sequences[q].current_step = sequences[q].total_steps) =>
            /\ sequences'[q].current_step = sequences[q].current_step
            /\ ~sequences'[q].active
            /\ sequences'[q].completed_at = now
            /\ sequences'[q].next_send_at = Null]_vars

\* a sequence that is completed at its last step, without a response
C8_Witness ==
  \E q \in Ids(sequences) :
    /\ sequences[q].current_step = sequences[q].total_steps
    /\ ~sequences[q].active
    /\ sequences[q].completed_at = now
    /\ sequences[q].next_send_at = Null
    /\ sequences[q].paused_reason = "none"
    /\ sequences[q].responses_received = 0

----------------------------------------------------------------------------
(* The sequence sweep: the instant response starts the sequence of a new    *)
(* lead, and every 5 minutes a process_sequences job enters the e-mail      *)
(* queue                                                                    *)

NextSweep ==
  \/ \E e \in Emails, a \in IntakeInputs :
       PostLead(e, a, {"email"}) /\ Len(jobs') <= MaxSweepJobs
  \/ StartJob("email")
  \/ \E j \in Ids(jobs) : InstantResponseSend(j, "ok")
  \/ \E j \in Ids(jobs) : InstantResponseSequence(j, TRUE)
  \/ \E j \in Ids(jobs) : MissingHandler(j)
  \/ /\ QueuesIdle
     /\ TickToNext({"process_sequences"})
     /\ Len(jobs') <= MaxSweepJobs

SpecSweep == Init /\ [][NextSweep]_vars

\* C9: once a sweep has finished, no sequence that was due before the sweep
\* was scheduled is still active and waiting for that send time: the sweep
\* had its step processed, which advanced, paused or completed it
C9_DueSequencesSwept ==
  \A j \in Ids(jobs), q \in Ids(sequences) :
    (/\ jobs[j].name = "process_sequences"
     /\ jobs[j].state \in {"completed", "failed"}
     /\ sequences[q].active
     /\ sequences[q].next_send_at # Null)
      => sequences[q].next_send_at >= jobs[j].addedOn

----------------------------------------------------------------------------
(* Follow-ups of one lead: its instant response and sequence, follow_up and *)
(* sequence_step jobs, a response recorded on one of its interactions, the  *)
(* lead closed, days passing between the jobs                                *)

NextFollowUp ==
  \/ PostLead("a@x", CHOOSE a \in IntakeInputs : TRUE, {"email"})
  \/ StartJob("email")
  \/ \E j \in Ids(jobs) : InstantResponseSend(j, "ok")
  \/ \E j \in Ids(jobs) : InstantResponseSequence(j, TRUE)
  \/ \E l \in Ids(leads) : AddFollowUp(l, 0) /\ Len(jobs') <= MaxFollowUpJobs
  \/ \E q \in Ids(sequences) : AddSequenceStep(q) /\ Len(jobs') <= MaxFollowUpJobs
  \/ \E j \in Ids(jobs), o \in {"send_fail", "ok"} : processFollowUp(j, o)
  \/ \E j \in Ids(jobs), o \in {"send_fail", "ok"} : processSequenceStep(j, o)
  \/ \E i \in Ids(interactions) :
       ~interactions[i].response_received /\ RecordResponse(i)
  \/ \E l \in Ids(leads), st \in ClosedStatuses :
       /\ leads[l].status \notin ClosedStatuses
       /\ PutLead(l, st)
       /\ Len(jobs') <= MaxFollowUpJobs
  \/ QueuesIdle /\ Tick(Day, {}) /\ now' <= MaxFollowUpDays * Day

SpecFollowUp == Init /\ [][NextFollowUp]_vars

\* C10: a follow_up or sequence_step job that runs for a lead that is
\* converted or lost, and a sequence_step job that runs for a lead with a
\* response recorded in the last 24 hours, sends no e-mail, finishes as
\* skipped, completed or paused, and leaves the step of the sequence as it is
C10_NoEmailToClosedOrResponded ==
  [][\A j \in Ids(jobs) :
       (/\ jobs[j].name \in {"follow_up", "sequence_step"}
        /\ jobs[j].state = "active"
        /\ jobs'[j].state # "active") =>
         LET q == jobs[j].seqId
             l == IF jobs[j].name = "follow_up" THEN jobs[j].leadId
                  ELSE sequences[q].lead_id
             closed == leads[l].status \in ClosedStatuses
             responded == jobs[j].name = "sequence_step"
                            /\ RespondedRecently(l, now)
         IN (closed \/ responded) =>
              /\ outbox' = outbox
              /\ jobs'[j].state = "completed"
              /\ jobs'[j].result \in {"skipped", "completed", "paused"}
              /\ jobs[j].name = "sequence_step" =>
                   sequences'[q].current_step = sequences[q].current_step]_vars

----------------------------------------------------------------------------
(* Sequences stopped by the lead-update route, next to the jobs and the     *)
(* trigger route that advance, pause, complete and resume them              *)

NextStop ==
  \/ PostLead("a@x", CHOOSE a \in IntakeInputs : TRUE, {"email"})
  \/ StartJob("email")
  \/ \E j \in Ids(jobs) : InstantResponseSend(j, "ok")
  \/ \E j \in Ids(jobs) : InstantResponseSequence(j, TRUE)
  \/ \E q \in Ids(sequences) : AddSequenceStep(q) /\ Len(jobs') <= MaxStopJobs
  \/ \E j \in Ids(jobs) : processSequenceStep(j, "ok")
  \/ \E i \in Ids(interactions) :
       ~interactions[i].response_received /\ RecordResponse(i)
  \/ \E l \in Ids(leads), st \in ClosedStatuses :
       /\ leads[l].status \notin ClosedStatuses
       /\ PutLead(l, st)
       /\ Len(jobs') <= MaxStopJobs
  \/ \E l \in Ids(leads) : triggers = {} /\ TriggerSequenceRead(l)
  \/ \E tr \in triggers : TriggerSequenceWrite(tr) /\ Len(sequences') <= MaxModelSeqs

SpecStop == Init /\ [][NextStop]_vars

\* C11: in every state, next_send_at of a sequence is null exactly when the
\* sequence is not active
C11_NextSendNullIffInactive ==
  \A q \in Ids(sequences) :
     (sequences[q].next_send_at = Null) <=> ~sequences[q].active

----------------------------------------------------------------------------
(* The timing of a sequence whose every step is sent as soon as it is due   *)

\* the days and hours the README gives for the steps of a sequence
StepOffsets(name) ==
  IF name = "high_value_follow_up"
  THEN <<0, 2 * 60 * 60, 24 * 60 * 60, 72 * 60 * 60>>
  ELSE <<0, 3 * Day, 7 * Day, 14 * Day>>

\* the active sequences whose step is due at time t
DueAt(t) ==
  {q \in Ids(sequences) :
     /\ sequences[q].active
     /\ sequences[q].next_send_at # Null
     /\ sequences[q].next_send_at <= t}

\* a sequence_step job of the sequence that has not finished
StepPending(q) ==
  \E j \in Ids(jobs) :
     /\ jobs[j].name = "sequence_step"
     /\ jobs[j].seqId = q
     /\ jobs[j].state \in {"waiting", "active", "delayed"}

\* addSequenceStepJob for a sequence at the moment its step is due
SendDueStep(q) ==
  /\ q \in DueAt(now)
  /\ ~StepPending(q)
  /\ AddSequenceStep(q)

\* the clock moves to the next moment a step becomes due
TickToDue ==
  /\ QueuesIdle
  /\ DueAt(now) = {}
  /\ \E q \in Ids(sequences) :
       /\ sequences[q].active
       /\ sequences[q].next_send_at # Null
       /\ \A r \in Ids(sequences) :
            (sequences[r].active /\ sequences[r].next_send_at # Null) =>
              sequences[q].next_send_at <= sequences[r].next_send_at
       /\ Tick(sequences[q].next_send_at - now, {})

NextTiming ==
  \/ \E e \in Emails, a \in LeadInputs : PostLead(e, a, {"email"})
  \/ StartJob("email")
  \/ \E j \in Ids(jobs) : InstantResponseSend(j, "ok")
  \/ \E j \in Ids(jobs) : InstantResponseSequence(j, TRUE)
  \/ \E q \in Ids(sequences) : SendDueStep(q)
  \/ \E j \in Ids(jobs) : processSequenceStep(j, "ok")
  \/ TickToDue

SpecTiming == Init /\ [][NextTiming]_vars

\* C12: while every step of a standard_follow_up or high_value_follow_up
\* sequence is sent as soon as it is due, the step the sequence is at is due
\* 0, 3, 7, 14 days (0, 2, 24, 72 hours) after the sequence was created
C12_StepsDueAtOffsets ==
  \A q \in Ids(sequences) :
     (/\ sequences[q].active
      /\ sequences[q].sequence_name \in {"standard_follow_up", "high_value_follow_up"}) =>
       sequences[q].next_send_at =
         sequences[q].started_at
           + StepOffsets(sequences[q].sequence_name)[sequences[q].current_step]

----------------------------------------------------------------------------
(* The webhook routes step by step: every await of a handler is a point     *)
(* where other requests run and where the process can stop                  *)

\* a request inside its handler; lead, interaction, saw_set and saw_clicks
\* are the handler's local values
Request(w, kind) ==
  [log |-> w, kind |-> kind, pc |-> "logged", lead |-> 0, interaction |-> 0,
   saw_set |-> FALSE, saw_clicks |-> 0]

Moved(r, pc) == (requests \ {r}) \cup {[r EXCEPT !.pc = pc]}

\* POST /form-submission: WebhookLog.createFromRequest
FormReceive(email, attrs) ==
  /\ webhookLogs' = Append(webhookLogs,
        NewWebhookLog("website_form", "form_submission", email, attrs, now))
  /\ requests' = requests \cup {Request(Len(webhookLogs) + 1, "form")}
  /\ UNCHANGED <<now, leads, sequences, interactions, notifications, outbox,
                 slackLog, queueVars, triggers, templates, config, scoringFactors, scored, loop, integrations, answers>>

\* ... the query for a lead of the same email of the last 24 hours
FormDedup(r) ==
  /\ r \in requests /\ r.kind = "form" /\ r.pc = "logged"
  /\ LET dup == RecentLeadsOf(webhookLogs[r.log].email, now)
     IN IF dup # {}
        THEN /\ webhookLogs' = [webhookLogs EXCEPT
                  ![r.log] = markProcessed(@, CHOOSE i \in dup : TRUE, 0)]
             /\ requests' = requests \ {r}
             /\ answers' = answers \cup {Answer("POST /form-submission", r.log, TRUE)}
        ELSE /\ requests' = Moved(r, "create")
             /\ UNCHANGED <<webhookLogs, answers>>
  /\ UNCHANGED <<now, leads, sequences, interactions, notifications, outbox,
                 slackLog, queueVars, triggers, templates, config, scoringFactors, scored, loop, integrations>>

\* ... Lead.create; it throws on a taken email or when dbOk is FALSE, and the
\* catch block then stores a second record and marks that one failed
FormCreate(r, dbOk) ==
  /\ r \in requests /\ r.kind = "form" /\ r.pc = "create"
  /\ LET log == webhookLogs[r.log]
     IN IF dbOk /\ ~EmailTaken(log.email)
        THEN /\ leads' = Append(leads, NewLead(log.email, FormLeadData(log.attrs),
                                               "website", now))
             /\ requests' = (requests \ {r}) \cup
                  {[r EXCEPT !.pc = "created", !.lead = Len(leads) + 1]}
             /\ UNCHANGED <<webhookLogs, answers>>
        ELSE /\ webhookLogs' = Append(webhookLogs,
                  markFailed(NewWebhookLog("website_form", "form_submission_failed",
                                           log.email, log.attrs, now)))
             /\ requests' = requests \ {r}
             /\ answers' = answers \cup {Answer("POST /form-submission", r.log, FALSE)}
             /\ UNCHANGED leads
  /\ UNCHANGED <<now, sequences, interactions, notifications, outbox, slackLog,
                 queueVars, triggers, templates, config, scoringFactors, scored, loop, integrations>>

\* ... webhookLog.markProcessed(lead.id) and the follow-on jobs
FormMark(r, enq) ==
  /\ r \in requests /\ r.kind = "form" /\ r.pc = "created"
  /\ webhookLogs' = [webhookLogs EXCEPT ![r.log] = markProcessed(@, r.lead, 0)]
  /\ SetQueues(FollowOnJobs(QS, r.lead, leads[r.lead], enq, now))
  /\ requests' = requests \ {r}
  /\ answers' = answers \cup {Answer("POST /form-submission", r.log, TRUE)}
  /\ UNCHANGED <<now, leads, sequences, interactions, notifications, outbox,
                 slackLog, nextRun, triggers, templates, config, scoringFactors, scored, loop, integrations>>

\* the process stops while a request is inside its handler
Interrupt(r) ==
  /\ r \in requests
  /\ r.pc # "rejected"
  /\ requests' = requests \ {r}
  /\ UNCHANGED <<now, dbVars, outbox, slackLog, queueVars, triggers, templates,
                 config, scoringFactors, scored, loop, integrations, answers>>

\* validateWebhookSignature: sigOk, the signature is the HMAC of timestamp and
\* body; age, the seconds between the timestamp header and the clock
TimestampWindow == 300

\* the middleware without the check of the timestamp, for comparison
validateWebhookSignatureAnyAge(sigOk, age) ==
  config.development \/ ~config.secret \/ sigOk

validateWebhookSignature(sigOk, age) ==
  \/ config.development
  \/ /\ age <= TimestampWindow
     /\ (~config.secret \/ sigOk)

\* the 401 answer of validateWebhookSignature
Rejected(kind) == [Request(0, kind) EXCEPT !.pc = "rejected"]

\* a request to a signed endpoint that the middleware turns away
Reject(kind, sigOk, age) ==
  /\ ~validateWebhookSignature(sigOk, age)
  /\ requests' = requests \cup {Rejected(kind)}
  /\ UNCHANGED <<now, dbVars, outbox, slackLog, queueVars, triggers, templates,
                 config, scoringFactors, scored, loop, integrations, answers>>

\* POST /email-engagement past the middleware: WebhookLog.createFromRequest
EngagementReceive(event, msg, sigOk, age) ==
  /\ validateWebhookSignature(sigOk, age)
  /\ webhookLogs' = Append(webhookLogs,
        [NewWebhookLog("email_provider", event, "", CHOOSE a \in LeadInputs : TRUE, now)
           EXCEPT !.message_id = msg, !.sig_ok = sigOk, !.ts_age = age])
  /\ requests' = requests \cup {Request(Len(webhookLogs) + 1, "engagement")}
  /\ UNCHANGED <<now, leads, sequences, interactions, notifications, outbox,
                 slackLog, queueVars, triggers, templates, config, scoringFactors, scored, loop, integrations, answers>>

\* the e-mail interaction that carries a message id: the id of an e-mail is
\* the index of the interaction stored for it
InteractionOfMessage(msg) ==
  {i \in Ids(interactions) : i = msg /\ interactions[i].interaction_type = "email_sent"}

\* ... LeadInteraction.findOne by message id
EngagementFind(r) ==
  /\ r \in requests /\ r.kind = "engagement" /\ r.pc = "logged"
  /\ LET log == webhookLogs[r.log]
         found == InteractionOfMessage(log.message_id)
     IN IF found = {}
        THEN /\ webhookLogs' = [webhookLogs EXCEPT ![r.log] = markProcessed(@, 0, 0)]
             /\ requests' = requests \ {r}
        ELSE LET i == CHOOSE i \in found : TRUE
             IN /\ requests' = (requests \ {r}) \cup
                     {[r EXCEPT !.pc = "found", !.interaction = i,
                                !.saw_set =
                                   IF log.event_type = "opened"
                                   THEN interactions[i].email_opened_at # Null
                                   ELSE interactions[i].email_clicked_at # Null,
                                !.saw_clicks = interactions[i].click_count]}
                /\ UNCHANGED webhookLogs
  /\ UNCHANGED <<now, leads, sequences, interactions, notifications, outbox,
                 slackLog, queueVars, triggers, templates, config, scoringFactors, scored, loop, integrations, answers>>

\* ... markOpened / markClicked on the instance that was read, unless it was
\* read as opened / clicked; dbOk = FALSE: the save throws, the route answers 500
EngagementMark(r, dbOk) ==
  /\ r \in requests /\ r.kind = "engagement" /\ r.pc = "found"
  /\ IF r.saw_set
     THEN /\ requests' = Moved(r, "finish")
          /\ UNCHANGED interactions
     ELSE IF dbOk
     THEN /\ interactions' = [interactions EXCEPT ![r.interaction] =
               IF webhookLogs[r.log].event_type = "opened"
               THEN [@ EXCEPT !.email_opened_at = now]
               ELSE [@ EXCEPT !.email_clicked_at = now,
                              !.click_count = r.saw_clicks + 1]]
          /\ requests' = Moved(r, "count")
     ELSE /\ requests' = requests \ {r}
          /\ UNCHANGED interactions
  /\ UNCHANGED <<now, leads, sequences, webhookLogs, notifications, outbox,
                 slackLog, queueVars, triggers, templates, config, scoringFactors, scored, loop, integrations, answers>>

\* ... incrementOpenedCount / incrementClickedCount of the template
EngagementCount(r) ==
  /\ r \in requests /\ r.kind = "engagement" /\ r.pc = "count"
  /\ templates' = IF webhookLogs[r.log].event_type = "opened"
                  THEN [templates EXCEPT !.opened_count = @ + 1]
                  ELSE [templates EXCEPT !.clicked_count = @ + 1]
  /\ requests' = Moved(r, "finish")
  /\ UNCHANGED <<now, dbVars, outbox, slackLog, queueVars, triggers, config, scoringFactors, scored, loop, integrations, answers>>

\* ... webhookLog.markProcessed(interaction.lead_id, interaction.id)
EngagementFinish(r) ==
  /\ r \in requests /\ r.kind = "engagement" /\ r.pc = "finish"
  /\ webhookLogs' = [webhookLogs EXCEPT ![r.log] =
        markProcessed(@, interactions[r.interaction].lead_id, r.interaction)]
  /\ requests' = requests \ {r}
  /\ UNCHANGED <<now, leads, sequences, interactions, notifications, outbox,
                 slackLog, queueVars, triggers, templates, config, scoringFactors, scored, loop, integrations, answers>>

\* POST /crm-updates past the middleware, event lead_created for a record
\* that matches no lead: WebhookLog.createFromRequest
CrmReceive(email, attrs, sigOk, age) ==
  /\ validateWebhookSignature(sigOk, age)
  /\ webhookLogs' = Append(webhookLogs,
        [NewWebhookLog("zoho_crm", "lead_created", email, attrs, now)
           EXCEPT !.sig_ok = sigOk, !.ts_age = age])
  /\ requests' = requests \cup {Request(Len(webhookLogs) + 1, "crm")}
  /\ UNCHANGED <<now, leads, sequences, interactions, notifications, outbox,
                 slackLog, queueVars, triggers, templates, config, scoringFactors, scored, loop, integrations, answers>>

\* ... Lead.create; when it throws the route answers 500
CrmCreate(r, dbOk) ==
  /\ r \in requests /\ r.kind = "crm" /\ r.pc = "logged"
  /\ LET log == webhookLogs[r.log]
     IN IF dbOk /\ ~EmailTaken(log.email)
        THEN /\ leads' = Append(leads, NewLead(log.email, CrmLeadData(log.attrs),
                                               "zoho_crm", now))
             /\ requests' = (requests \ {r}) \cup
                  {[r EXCEPT !.pc = "created", !.lead = Len(leads) + 1]}
        ELSE /\ requests' = requests \ {r}
             /\ UNCHANGED leads
  /\ UNCHANGED <<now, sequences, interactions, webhookLogs, notifications,
                 outbox, slackLog, queueVars, triggers, templates, config, scoringFactors, scored, loop, integrations, answers>>

\* ... webhookLog.markProcessed(lead.id)
CrmMark(r) ==
  /\ r \in requests /\ r.kind = "crm" /\ r.pc = "created"
  /\ webhookLogs' = [webhookLogs EXCEPT ![r.log] = markProcessed(@, r.lead, 0)]
  /\ requests' = requests \ {r}
  /\ UNCHANGED <<now, leads, sequences, interactions, notifications, outbox,
                 slackLog, queueVars, triggers, templates, config, scoringFactors, scored, loop, integrations, answers>>

----------------------------------------------------------------------------
(* Webhook requests of the three endpoints, authentic, with interruptions  *)

EngagementEvents == {"opened", "clicked"}

WebhookSteps ==
  \/ \E r \in requests : FormDedup(r)
  \/ \E r \in requests, dbOk \in BOOLEAN : FormCreate(r, dbOk)
  \/ \E r \in requests : FormMark(r, {"email"})
  \/ \E r \in requests : EngagementFind(r)
  \/ \E r \in requests, dbOk \in BOOLEAN : EngagementMark(r, dbOk)
  \/ \E r \in requests : EngagementCount(r)
  \/ \E r \in requests : EngagementFinish(r)
  \/ \E r \in requests, dbOk \in BOOLEAN : CrmCreate(r, dbOk)
  \/ \E r \in requests : CrmMark(r)

NextWebhook ==
  \/ /\ \/ \E a \in IntakeInputs : FormReceive("a@x", a)
        \/ \E ev \in EngagementEvents, msg \in 0..1 : EngagementReceive(ev, msg, TRUE, 0)
        \/ \E a \in IntakeInputs : CrmReceive("a@x", a, TRUE, 0)
     /\ Len(webhookLogs') <= MaxRequests
  \/ WebhookSteps
  \/ \E r \in requests : Interrupt(r)
  \/ StartJob("email")
  \/ \E j \in Ids(jobs) : InstantResponseSend(j, "ok")
  \/ \E j \in Ids(jobs) : InstantResponseSequence(j, TRUE)

SpecWebhook == Init /\ [][NextWebhook]_vars

----------------------------------------------------------------------------
(* One form payload delivered again and again, side by side or days apart, *)
(* and replayed; no interruption and no database failure                   *)

NextDedup ==
  \/ /\ FormReceive("a@x", CHOOSE a \in IntakeInputs : TRUE)
     /\ Len(webhookLogs') <= MaxDeliveries
  \/ \E r \in requests : FormDedup(r)
  \/ \E r \in requests : FormCreate(r, TRUE)
  \/ \E r \in requests : FormMark(r, {})
  \/ \E w \in Ids(webhookLogs) :
       /\ ~webhookLogs[w].processed
       /\ \A r \in requests : r.log # w
       /\ AddWebhookReplay(w)
       /\ Len(jobs') <= MaxReplayJobs
  \/ StartJob("integration")
  \/ \E j \in Ids(jobs) : processWebhookReplay(j, TRUE)
  \/ QueuesIdle /\ requests = {} /\ Tick(Day, {}) /\ now' <= MaxDedupDays * Day

SpecDedup == Init /\ [][NextDedup]_vars

\* C14: there is at most one lead per email, and every delivery of the form
\* payload that has been handled while a lead of its email existed is linked
\* to that lead
C14_OneLeadPerEmail ==
  /\ \A l, k \in Ids(leads) : leads[l].email = leads[k].email => l = k
  /\ \A w \in Ids(webhookLogs) :
       (/\ webhookLogs[w].event_type = "form_submission"
        /\ \A r \in requests : r.log # w) =>
         \E l \in Ids(leads) :
            /\ leads[l].email = webhookLogs[w].email
            /\ webhookLogs[w].processed
            /\ webhookLogs[w].lead_id = l

----------------------------------------------------------------------------
(* How a webhook request and a replay end: database failures, no            *)
(* interruption                                                              *)

ReplayJobs == {j \in Ids(jobs) : jobs[j].name = "webhook_replay"}

NextOutcome ==
  \/ /\ \/ \E a \in IntakeInputs : FormReceive("a@x", a)
        \/ \E ev \in EngagementEvents, msg \in 0..1 : EngagementReceive(ev, msg, TRUE, 0)
        \/ \E a \in IntakeInputs : CrmReceive("a@x", a, TRUE, 0)
     /\ Len(webhookLogs') <= MaxRequests
  \/ WebhookSteps
  \/ StartJob("email")
  \/ \E j \in Ids(jobs) : InstantResponseSend(j, "ok")
  \/ \E j \in Ids(jobs) : InstantResponseSequence(j, TRUE)
  \/ \E w \in Ids(webhookLogs) :
       /\ ~webhookLogs[w].processed
       /\ \A r \in requests : r.log # w
       /\ Cardinality(ReplayJobs) < MaxReplayJobs
       /\ AddWebhookReplay(w)
  \/ StartJob("integration")
  \/ \E j \in Ids(jobs), dbOk \in BOOLEAN : processWebhookReplay(j, dbOk)

SpecOutcome == Init /\ [][NextOutcome]_vars

\* C15: a request or a replay that ends in success leaves its record
\* processed and linked to the lead or the interaction it produced; a request
\* or a replay that ends in failure leaves that same record unprocessed with
\* its retry_count one higher
C15_ProcessedOrCounted ==
  [][/\ \A r \in {q \in requests : \A p \in requests' : p.log # q.log} :
          LET old == webhookLogs[r.log]
              new == webhookLogs'[r.log]
          IN IF new.processed
             THEN /\ r.lead # 0 => new.lead_id = r.lead
                  /\ r.interaction # 0 => new.interaction_id = r.interaction
             ELSE new.retry_count = old.retry_count + 1
     /\ \A j \in ReplayJobs :
          (jobs[j].state = "active" /\ jobs'[j].state # "active"
             /\ ~webhookLogs[jobs[j].webhookId].processed
             /\ webhookLogs[jobs[j].webhookId].retry_count < MaxRetries) =>
            LET old == webhookLogs[jobs[j].webhookId]
                new == webhookLogs'[jobs[j].webhookId]
            IN IF jobs'[j].result = "completed"
               THEN new.processed
               ELSE ~new.processed /\ new.retry_count = old.retry_count + 1]_vars

----------------------------------------------------------------------------
(* Unprocessed webhook records and the jobs of the integration queue over  *)
(* a day: the requests that leave them, the recurring health_check         *)

NextReplay ==
  \/ /\ FormReceive("a@x", CHOOSE a \in IntakeInputs : TRUE)
     /\ Len(webhookLogs') <= MaxRequests
  \/ \E r \in requests : FormDedup(r)
  \/ \E r \in requests, dbOk \in BOOLEAN : FormCreate(r, dbOk)
  \/ \E r \in requests : FormMark(r, {})
  \/ \E r \in requests : Interrupt(r)
  \/ StartJob("integration")
  \/ \E j \in Ids(jobs) : MissingHandler(j)
  \/ /\ QueuesIdle
     /\ Tick(Day \div 2, {"health_check"})
     /\ now' <= MaxReplayDays * Day

SpecReplay == Init /\ [][NextReplay]_vars

\* C16: a record that has been left unprocessed with retry_count below
\* max_retries gets a webhook_replay job; stated for a record that has waited
\* a day, by when every recurring job has come round
C16_UnprocessedGetsReplayed ==
  \A w \in Ids(webhookLogs) :
     (/\ ~webhookLogs[w].processed
      /\ webhookLogs[w].retry_count < MaxRetries
      /\ \A r \in requests : r.log # w
      /\ webhookLogs[w].created_at + Day <= now) =>
       \E j \in ReplayJobs : jobs[j].webhookId = w

----------------------------------------------------------------------------
(* Replay of records near max_retries: replays that fail, replays whose    *)
(* first read of the record throws, Bull's own re-attempts of the job       *)

\* the catch block of processWebhookReplay: something awaited in the try block
\* rejected (the first WebhookLog.findByPk, or a save); the record is fetched
\* again, markFailed is called on it and the error is rethrown to Bull
processWebhookReplayCatch(id) ==
  /\ id \in Ids(jobs)
  /\ jobs[id].state = "active"
  /\ jobs[id].name = "webhook_replay"
  /\ webhookLogs' = [webhookLogs EXCEPT ![jobs[id].webhookId] = markFailed(@)]
  /\ SetQueues(QFail(QS, id, now))
  /\ UNCHANGED <<now, leads, sequences, interactions, notifications, outbox,
                 slackLog, nextRun, triggers, templates, requests, config, scoringFactors, scored, loop, integrations, answers>>

NextAbandon ==
  \/ /\ jobs = <<>>
     /\ FormReceive("a@x", CHOOSE a \in IntakeInputs : TRUE)
     /\ Len(webhookLogs') <= MaxWebhookLogs
  \/ \E r \in requests : FormDedup(r)
  \/ \E r \in requests, dbOk \in BOOLEAN : FormCreate(r, dbOk)
  \/ \E r \in requests : FormMark(r, {})
  \/ \E w \in Ids(webhookLogs) :
       /\ ~webhookLogs[w].processed
       /\ requests = {}
       /\ \A j \in Ids(jobs) : jobs[j].state \in {"completed", "failed"}
       /\ Len(jobs) < MaxAbandonJobs
       /\ AddWebhookReplay(w)
  \/ StartJob("integration")
  \/ \E j \in Ids(jobs), dbOk \in BOOLEAN : processWebhookReplay(j, dbOk)
  \/ \E j \in Ids(jobs) : processWebhookReplayCatch(j)
  \/ QueuesIdle /\ TickToNext({})

SpecAbandon == Init /\ [][NextAbandon]_vars

\* C17: no step changes or removes a record whose retry_count has reached
\* max_retries: replay leaves it in place, unprocessed, with the same
\* retry_count
C17_AbandonedLeftAlone ==
  [][\A w \in Ids(webhookLogs) :
       webhookLogs[w].retry_count >= MaxRetries =>
         /\ w \in Ids(webhookLogs')
         /\ webhookLogs'[w] = webhookLogs[w]]_vars

----------------------------------------------------------------------------
(* The signed endpoints under every environment: matching and mismatching  *)
(* signatures, fresh and stale timestamps                                   *)

Environments == [development : BOOLEAN, secret : BOOLEAN]

\* |now - x-timestamp| in seconds: fresh, on the limit, past the limit
TimestampAges == {0, TimestampWindow, TimestampWindow + 1}

InitAuth == \E env \in Environments : InitWith(env)

NextAuth ==
  \/ \E kind \in {"engagement", "crm"}, sigOk \in BOOLEAN, age \in TimestampAges :
       Reject(kind, sigOk, age)
  \/ /\ \/ FormReceive("a@x", CHOOSE a \in IntakeInputs : TRUE)
        \/ \E sigOk \in BOOLEAN, age \in TimestampAges :
             EngagementReceive("opened", 1, sigOk, age)
        \/ \E sigOk \in BOOLEAN, age \in TimestampAges :
             CrmReceive("a@x", CHOOSE a \in IntakeInputs : TRUE, sigOk, age)
     /\ Len(webhookLogs') <= MaxWebhookLogs
  \/ WebhookSteps
  \/ StartJob("email")
  \/ \E j \in Ids(jobs) : InstantResponseSend(j, "ok")
  \/ \E j \in Ids(jobs) : InstantResponseSequence(j, TRUE)

SpecAuth == InitAuth /\ [][NextAuth]_vars

\* the record of a request that came through a signed endpoint
SignedLogs == {w \in Ids(webhookLogs) : webhookLogs[w].source # "website_form"}

----------------------------------------------------------------------------
(* One e-mail and the engagement events the provider delivers for it, the  *)
(* same event more than once, the requests overlapping or not               *)

NextIngest ==
  \/ /\ leads = <<>>
     /\ PostLead("a@x", CHOOSE a \in IntakeInputs : TRUE, {"email"})
  \/ StartJob("email")
  \/ \E j \in Ids(jobs) : InstantResponseSend(j, "ok")
  \/ \E j \in Ids(jobs) : InstantResponseSequence(j, TRUE)
  \/ /\ \E ev \in EngagementEvents : EngagementReceive(ev, 1, TRUE, 0)
     /\ Len(webhookLogs') <= MaxDeliveries
  \/ \E r \in requests : EngagementFind(r)
  \/ \E r \in requests, dbOk \in BOOLEAN : EngagementMark(r, dbOk)
  \/ \E r \in requests : EngagementCount(r)
  \/ \E r \in requests : EngagementFinish(r)

SpecIngest == Init /\ [][NextIngest]_vars

\* C19: however often the opened and the clicked event of an e-mail are
\* delivered, they count once: the template's opened_count and clicked_count
\* do not exceed the number of e-mails recorded as opened and as clicked, and
\* the click_count of an e-mail does not exceed one
C19_EngagementCountedOnce ==
  /\ templates.opened_count <=
        Cardinality({i \in Ids(interactions) : interactions[i].email_opened_at # Null})
  /\ templates.clicked_count <=
        Cardinality({i \in Ids(interactions) : interactions[i].email_clicked_at # Null})
  /\ \A i \in Ids(interactions) : interactions[i].click_count <= 1

----------------------------------------------------------------------------
(* Scoring: the scoring factors are configured in any way the model        *)
(* accepts, leads are scored by Lead.calculateScore and by                  *)
(* ScoringFactor.calculateLeadScore                                         *)

FactorNames == {"company_name_present", "service_type_priority", "estimated_value_tier"}

FactorMethod(name) ==
  CASE name = "estimated_value_tier" -> "range"
    [] name = "timing_urgency" -> "calculation"
    [] OTHER -> "exact_match"

FactorKeys(name) ==
  CASE name = "company_name_present" -> {"present", "absent"}
    [] name = "service_type_priority" -> {"corporate", "airport"}
    [] name = "estimated_value_tier" -> {"1000+", "0-99"}
    [] name = "timing_urgency" -> {"same_day", "next_day", "future"}

\* value_mappings is JSONB without validation: any number is stored
PointValues == {-10, 60}

FactorInputs(name) ==
  [active : BOOLEAN, calculation_method : {FactorMethod(name)},
   value_mappings : [FactorKeys(name) -> PointValues]]

ScoreInputs ==
  [company_name : {"", "Acme"}, estimated_value : {Undef, 50, 1500},
   service_type : {"corporate", "airport"}, distance_from_base : {10},
   passenger_count : {8}]

\* ScoringFactor.create / update of the factor called name
SaveScoringFactor(name, factor) ==
  /\ scoringFactors' = [n \in DOMAIN scoringFactors \cup {name} |->
                          IF n = name THEN factor ELSE scoringFactors[n]]
  /\ UNCHANGED <<now, dbVars, outbox, slackLog, queueVars, triggers, templates,
                 requests, config, scored, loop, integrations, answers>>

ScoreByFactors(lead) ==
  /\ scored' = [by |-> "ScoringFactor.calculateLeadScore", lead |-> lead,
                score |-> calculateLeadScore(scoringFactors, lead)]
  /\ UNCHANGED <<now, dbVars, outbox, slackLog, queueVars, triggers, templates,
                 requests, config, scoringFactors, loop,
                 integrations, answers>>

ScoreByLead(lead) ==
  /\ scored' = [by |-> "Lead.calculateScore", lead |-> lead,
                score |-> calculateScore(lead)]
  /\ UNCHANGED <<now, dbVars, outbox, slackLog, queueVars, triggers, templates,
                 requests, config, scoringFactors, loop,
                 integrations, answers>>

NextScore ==
  \/ \E name \in FactorNames : \E factor \in FactorInputs(name) :
       SaveScoringFactor(name, factor)
  \/ \E lead \in ScoreInputs : ScoreByFactors(lead)
  \/ \E lead \in ScoreInputs : ScoreByLead(lead)

SpecScore == Init /\ [][NextScore]_vars

\* C20: every score computed, by Lead.calculateScore or by
\* ScoringFactor.calculateLeadScore, is an integer from 0 to 100
C20_ScoreWithinRange ==
  scored.by # "none" => scored.score \in 0..100

----------------------------------------------------------------------------
(* The life of one lead: it is created, then changed through PUT           *)
(* /leads/:id, recorded interactions, CRM webhooks and hard bounces         *)

\* POST /api/v2/leads/:leadId/interactions
RecordInteraction(l, type) ==
  /\ l \in Ids(leads)
  /\ interactions' = Append(interactions, NewInteraction(l, type, FALSE, now))
  /\ leads' = IF leads[l].status = "new" /\ type \in {"call_made", "email_sent"}
              THEN [leads EXCEPT ![l] = leadUpdate(@, [status |-> "contacted"])]
              ELSE leads
  /\ UNCHANGED <<now, sequences, webhookLogs, notifications, outbox, slackLog,
                 queueVars, triggers, templates, requests, config, scoringFactors,
                 scored, loop, integrations, answers>>

\* the record of a webhook that the route went through to markProcessed
ProcessedLog(source, eventType, l) ==
  markProcessed(NewWebhookLog(source, eventType, leads[l].email,
                              CHOOSE a \in LeadInputs : TRUE, now), l, 0)

\* POST /webhooks/crm-updates, lead_updated: Lead_Status through statusMap,
\* Annual_Revenue through parseFloat
CrmLeadUpdated(l, updates) ==
  /\ l \in Ids(leads)
  /\ leads' = [leads EXCEPT ![l] = leadUpdate(@, updates)]
  /\ webhookLogs' = Append(webhookLogs, ProcessedLog("zoho_crm", "lead_updated", l))
  /\ UNCHANGED <<now, sequences, interactions, notifications, outbox, slackLog,
                 queueVars, triggers, templates, requests, config, scoringFactors,
                 scored, loop, integrations, answers>>

\* POST /webhooks/crm-updates, deal_closed
CrmDealClosed(l) ==
  /\ l \in Ids(leads)
  /\ leads' = [leads EXCEPT ![l] = leadUpdate(@, [status |-> "converted"])]
  /\ webhookLogs' = Append(webhookLogs, ProcessedLog("zoho_crm", "deal_closed", l))
  /\ UNCHANGED <<now, sequences, interactions, notifications, outbox, slackLog,
                 queueVars, triggers, templates, requests, config, scoringFactors,
                 scored, loop, integrations, answers>>

\* POST /webhooks/email-engagement, bounced with bounce_type hard, for the
\* e-mail of interaction i
EngagementHardBounce(i) ==
  /\ i \in Ids(interactions)
  /\ interactions[i].interaction_type = "email_sent"
  /\ leads' = [leads EXCEPT ![interactions[i].lead_id] =
                 leadUpdate(@, [status |-> "lost"])]
  /\ webhookLogs' = Append(webhookLogs,
        ProcessedLog("email_provider", "bounced", interactions[i].lead_id))
  /\ UNCHANGED <<now, sequences, interactions, notifications, outbox, slackLog,
                 queueVars, triggers, templates, requests, config, scoringFactors,
                 scored, loop, integrations, answers>>

\* bodies that pass leadSchemas.update
PutBodies ==
  {[status |-> s] : s \in Statuses}
    \cup {[estimated_value |-> v] : v \in {0, 600, 1500}}
    \cup {[priority_level |-> p] : p \in {1, 5}}
    \cup {[status |-> "qualified", estimated_value |-> 600]}

CrmBodies ==
  {[status |-> s] : s \in Statuses} \cup {[estimated_value |-> v] : v \in {600, 1500}}

LeadOps == Len(interactions) + Len(webhookLogs)

NextLead ==
  \/ \E a \in LeadInputs : leads = <<>> /\ PostLead("a@x", a, {})
  \/ \E l \in Ids(leads), u \in PutBodies :
       LeadOps < MaxLeadOps /\ PutLeadWith(l, u)
  \/ \E l \in Ids(leads), type \in {"call_made", "email_sent", "meeting_scheduled"} :
       LeadOps < MaxLeadOps /\ RecordInteraction(l, type)
  \/ \E l \in Ids(leads), u \in CrmBodies :
       LeadOps < MaxLeadOps /\ CrmLeadUpdated(l, u)
  \/ \E l \in Ids(leads) : LeadOps < MaxLeadOps /\ CrmDealClosed(l)
  \/ \E i \in Ids(interactions) : LeadOps < MaxLeadOps /\ EngagementHardBounce(i)

SpecLead == Init /\ [][NextLead]_vars

C22_PriorityIsTierOfScore ==
  \A l \in Ids(leads) : leads[l].priority_level = updatePriority(leads[l].lead_score)

----------------------------------------------------------------------------
(* The Lead model on its own: besides the routes, any caller of              *)
(* lead.update with any column                                               *)

ModelUpdates ==
  {[company_name |-> c] : c \in {"", "Acme"}}
    \cup {[service_type |-> "corporate"], [passenger_count |-> 8],
          [distance_from_base |-> 60], [estimated_value |-> 600],
          [status |-> "contacted"], [priority_level |-> 3]}

\* lead.update(updates) called on the model
LeadModelUpdate(l, updates) ==
  /\ l \in Ids(leads)
  /\ leads' = [leads EXCEPT ![l] = leadUpdate(@, updates)]
  /\ UNCHANGED <<now, sequences, interactions, webhookLogs, notifications, outbox,
                 slackLog, queueVars, triggers, templates, requests, config,
                 scoringFactors, scored, loop, integrations, answers>>

NextLeadModel ==
  \/ \E a \in LeadInputs : leads = <<>> /\ PostLead("a@x", a, {})
  \/ \E l \in Ids(leads), u \in PutBodies :
       LeadOps < MaxLeadOps /\ PutLeadWith(l, u)
  \/ \E l \in Ids(leads), u \in ModelUpdates : LeadModelUpdate(l, u)

SpecLeadModel == Init /\ [][NextLeadModel]_vars

\* the lead's attributes that Lead.prototype.calculateScore reads
ScoredAttributes(l) ==
  <<l.company_name, l.estimated_value, l.service_type, l.distance_from_base,
    l.passenger_count>>

C24_ScoreKeptOnOtherUpdates ==
  [][\A l \in Ids(leads) :
       ScoredAttributes(leads'[l]) = ScoredAttributes(leads[l]) =>
         leads'[l].lead_score = leads[l].lead_score]_vars

C24_Witness ==
  \E l \in Ids(leads) :
     /\ leads[l].status # "new"
     /\ leads[l].priority_level # updatePriority(leads[l].lead_score)
     /\ leads[l].lead_score # calculateScore(NullAsZero(leads[l]))

----------------------------------------------------------------------------
(* Scoring at different times: the timing_urgency factor is configured,    *)
(* then leads with and without a service_date are scored as the clock moves *)

\* the timing_urgency row of ScoringFactor.createDefaultFactors
DefaultTimingUrgency ==
  [active |-> TRUE, calculation_method |-> "calculation",
   value_mappings |-> [same_day |-> 5, next_day |-> 3, future |-> 1]]

\* leads with a service_date 36 hours after start-up, and without one
ClockInputs ==
  [company_name : {"Acme"}, estimated_value : {1500}, service_type : {"corporate"},
   distance_from_base : {10}, passenger_count : {6},
   service_date : {Undef, 36 * 3600}]

NextClock ==
  \/ \E factor \in FactorInputs("timing_urgency") \cup {DefaultTimingUrgency} :
       scored.by = "none" /\ SaveScoringFactor("timing_urgency", factor)
  \/ \E lead \in ClockInputs : ScoreByFactors(lead)
  \/ Tick(Day \div 2, {}) /\ now' <= MaxClockDays * Day

SpecClock == Init /\ [][NextClock]_vars

\* C25: an evaluation of the lead that was evaluated last, against the same
\* factors, returns the same total whatever the clock says, and changes
\* neither the leads nor the factors
C25_ScoringDeterministic ==
  [][scored'.by = "ScoringFactor.calculateLeadScore" /\ scored' # scored =>
       /\ (scored.by = scored'.by /\ scored.lead = scored'.lead) =>
             scored'.score = scored.score
       /\ UNCHANGED <<leads, scoringFactors>>]_vars

\* the place of a status on the way new, contacted, qualified, then converted
\* or lost
StatusRank(status) ==
  CASE status = "new" -> 0
    [] status = "contacted" -> 1
    [] status = "qualified" -> 2
    [] OTHER -> 3

\* C26: no step moves a lead to an earlier status, unless it reopens a
\* converted or lost lead
C26_StatusOnlyAdvances ==
  [][\A l \in Ids(leads) :
       \/ StatusRank(leads'[l].status) >= StatusRank(leads[l].status)
       \/ leads[l].status \in ClosedStatuses]_vars

----------------------------------------------------------------------------
(* Multi-channel alerts (notificationProcessor.js, models/Notification.js): *)
(* one recipient who takes e-mail and text messages                         *)

HighValueTtl == 60 * 60
ResponseNeededTtl == 30 * 60

\* Notification.create with the model's defaults; stored: the row is in the
\* table
NewNotification(leadId, type, priority, minutes, ttl, t) ==
  [lead_id |-> leadId, notification_type |-> type, priority |-> priority,
   minutes |-> minutes, sent |-> FALSE, sent_at |-> Null, read |-> FALSE,
   expires_at |-> t + ttl, created_at |-> t, delivery_status |-> "none",
   stored |-> TRUE]

createHighValueLeadAlert(leadId, t) ==
  NewNotification(leadId, "high_value_lead", 5, 0, HighValueTtl, t)

createResponseNeededAlert(leadId, minutes, t) ==
  NewNotification(leadId, "response_needed", 4, minutes, ResponseNeededTtl, t)

\* Notification.prototype.markSent
markSent(n, channel, t) ==
  [n EXCEPT !.sent = TRUE, !.sent_at = t, !.delivery_status = channel]

\* what a channel's counters say about the one recipient
Outcome(ok) == IF ok THEN "sent" ELSE "failed"

\* processHighValueAlert; emailOk, slackOk, smsOk = FALSE: the service of
\* that channel throws, which the handler catches and counts
processHighValueAlert(id, emailOk, slackOk, smsOk) ==
  /\ id \in Ids(jobs)
  /\ jobs[id].state = "active"
  /\ jobs[id].name = "high_value_alert"
  /\ LET l == jobs[id].leadId
         lead == leads[l]
         critical == (lead.estimated_value # Undef /\ lead.estimated_value >= 2000)
                       \/ lead.lead_score >= 90
         results == [email |-> Outcome(emailOk), slack |-> Outcome(slackOk),
                     sms |-> IF critical THEN Outcome(smsOk) ELSE "none"]
         done == QComplete(QS, id, "completed", now)
     IN /\ notifications' = Append(notifications,
             markSent(createHighValueLeadAlert(l, now), "multi_channel", now))
        /\ outbox' = IF emailOk THEN Append(outbox, Email(l, "high_value_alert", now))
                     ELSE outbox
        /\ slackLog' = IF slackOk
                       THEN Append(slackLog, [kind |-> "high_value_lead", lead_id |-> l,
                                              minutes |-> 0, at |-> now])
                       ELSE slackLog
        /\ SetQueues([done EXCEPT !.jobs[id].channels = results])
  /\ UNCHANGED <<now, leads, sequences, interactions, webhookLogs, nextRun,
                 triggers, templates, requests, config, scoringFactors, scored, loop, integrations, answers>>

\* processResponseTimeAlert of a job whose data carries minutes; the call of
\* slackService.sendUrgentAlert sits in no try/catch of its own, the e-mails
\* do, and the result names no channel
processResponseTimeAlert(id, minutes, slackOk, emailOk) ==
  /\ id \in Ids(jobs)
  /\ jobs[id].state = "active"
  /\ jobs[id].name = "response_time_alert"
  /\ LET l == jobs[id].leadId
         created == createResponseNeededAlert(l, minutes, now)
     IN IF leads[l].status # "new"
        THEN /\ SetQueues(QComplete(QS, id, "skipped", now))
             /\ UNCHANGED <<notifications, outbox, slackLog>>
        ELSE IF ~slackOk
        THEN /\ notifications' = Append(notifications, created)
             /\ SetQueues(QFail(QS, id, now))
             /\ UNCHANGED <<outbox, slackLog>>
        ELSE /\ notifications' = Append(notifications,
                                        markSent(created, "slack_email", now))
             /\ slackLog' = Append(slackLog, [kind |-> "response_time_alert",
                                              lead_id |-> l, minutes |-> minutes,
                                              at |-> now])
             /\ outbox' = IF emailOk
                          THEN Append(outbox, Email(l, "response_time_alert", now))
                          ELSE outbox
             /\ SetQueues(QComplete(QS, id, "completed", now))
  /\ UNCHANGED <<now, leads, sequences, interactions, webhookLogs, nextRun,
                 triggers, templates, requests, config, scoringFactors, scored, loop, integrations, answers>>

\* notificationQueue.add through the exported helper addResponseTimeAlert
AddResponseTimeAlert(l) ==
  /\ l \in Ids(leads)
  /\ SetQueues(QAdd(QS, addResponseTimeAlert(l), now))
  /\ UNCHANGED <<now, dbVars, outbox, slackLog, nextRun, triggers, templates,
                 requests, config, scoringFactors, scored, loop, integrations, answers>>

AlertMinutes == {5, 10}

NextFanOut ==
  \/ \E a \in LeadInputs :
       PostLead("a@x", a, {"notification"}) /\ Len(jobs') <= MaxFanOutJobs
  \/ \E l \in Ids(leads) :
       AddResponseTimeAlert(l) /\ Len(jobs') <= MaxFanOutJobs
  \/ StartJob("notification")
  \/ \E j \in Ids(jobs), emailOk \in BOOLEAN, slackOk \in BOOLEAN, smsOk \in BOOLEAN :
       processHighValueAlert(j, emailOk, slackOk, smsOk)
  \/ \E j \in Ids(jobs), m \in AlertMinutes, slackOk \in BOOLEAN, emailOk \in BOOLEAN :
       processResponseTimeAlert(j, m, slackOk, emailOk)
  \/ QueuesIdle /\ TickToNext({})

SpecFanOut == Init /\ [][NextFanOut]_vars

\* C27: a run of a high_value_alert or response_time_alert job in which the
\* e-mail service works and Slack or the text-message service fails ends
\* with the job completed and with the outcome of every channel it used in
\* the job's result
C27_PartialSuccessCompletes ==
  [][\A j \in Ids(jobs), m \in AlertMinutes, slackOk \in BOOLEAN, smsOk \in BOOLEAN :
       (/\ ~(slackOk /\ smsOk)
        /\ \/ processHighValueAlert(j, TRUE, slackOk, smsOk)
           \/ /\ leads[jobs[j].leadId].status = "new"
              /\ processResponseTimeAlert(j, m, slackOk, TRUE))
       => /\ jobs'[j].state = "completed"
          /\ jobs'[j].channels.email = "sent"
          /\ jobs'[j].channels.slack = Outcome(slackOk)]_vars

----------------------------------------------------------------------------
(* Expiry of notifications (models/Notification.js) *)

\* Notification.prototype.isExpired at time t
isExpired(n, t) == n.expires_at # Null /\ t > n.expires_at

\* Notification.findPending at time t
findPending(t) ==
  {n \in Ids(notifications) :
     /\ notifications[n].stored
     /\ ~notifications[n].sent
     /\ (notifications[n].expires_at = Null \/ notifications[n].expires_at > t)}

\* Notification.findUnread at time t, of all users
findUnread(t) ==
  {n \in Ids(notifications) :
     /\ notifications[n].stored
     /\ ~notifications[n].read
     /\ notifications[n].sent
     /\ (notifications[n].expires_at = Null \/ notifications[n].expires_at > t)}

\* Notification.prototype.markRead
MarkRead(n) ==
  /\ n \in Ids(notifications)
  /\ notifications[n].stored
  /\ notifications' = [notifications EXCEPT ![n].read = TRUE]
  /\ UNCHANGED <<now, leads, sequences, interactions, webhookLogs, outbox, slackLog,
                 queueVars, triggers, templates, requests, config, scoringFactors,
                 scored, loop, integrations, answers>>

\* Notification.cleanupExpired: destroy where expires_at < now and read
cleanupExpired ==
  /\ notifications' =
       [n \in Ids(notifications) |->
          IF /\ notifications[n].expires_at # Null
             /\ notifications[n].expires_at < now
             /\ notifications[n].read
          THEN [notifications[n] EXCEPT !.stored = FALSE]
          ELSE notifications[n]]
  /\ UNCHANGED <<now, leads, sequences, interactions, webhookLogs, outbox, slackLog,
                 queueVars, triggers, templates, requests, config, scoringFactors,
                 scored, loop, integrations, answers>>

NextExpiry ==
  \/ \E a \in LeadInputs :
       PostLead("a@x", a, {"notification"}) /\ Len(jobs') <= MaxExpiryJobs
  \/ \E l \in Ids(leads) :
       AddResponseTimeAlert(l) /\ Len(jobs') <= MaxExpiryJobs
  \/ StartJob("notification")
  \/ \E j \in Ids(jobs) : processHighValueAlert(j, TRUE, TRUE, TRUE)
  \/ \E j \in Ids(jobs), slackOk \in BOOLEAN :
       processResponseTimeAlert(j, 10, slackOk, TRUE)
  \/ \E n \in Ids(notifications) : MarkRead(n)
  \/ cleanupExpired
  \/ QueuesIdle /\ Tick(30 * 60, {}) /\ now' <= MaxExpiryHours * 3600

SpecExpiry == Init /\ [][NextExpiry]_vars

\* the stored notifications whose expires_at has passed
ExpiredNotifications ==
  {n \in Ids(notifications) :
     notifications[n].stored /\ isExpired(notifications[n], now)}

\* C28: a notification whose expires_at has passed is in the result of
\* neither findPending nor findUnread, is not marked sent from then on, and
\* stays in the table whatever is done next
C28_ExpiredKeptNotDelivered ==
  /\ [](\A n \in ExpiredNotifications : n \notin findPending(now) \cup findUnread(now))
  /\ [][\A n \in ExpiredNotifications :
          /\ notifications'[n].stored
          /\ notifications'[n].sent = notifications[n].sent]_vars

----------------------------------------------------------------------------
(* Job names: every helper of app.js adds jobs, the recurring jobs repeat,  *)
(* and the workers take what is registered                                  *)

\* the jobs the exported helpers add for lead or sequence 1
HelperJobs ==
  {addInstantEmailJob(1), addFollowUpEmailJob(1, 0), addSequenceStepJob(1),
   addHighValueNotification(1), addResponseTimeAlert(1), addSlackNotification(5),
   addIntegrationSync("zoho_crm", 1), addIntegrationSync("fasttrack_invision", 1)}

\* queue.add of one of the helpers' jobs
Enqueue(job) ==
  /\ SetQueues(QAdd(QS, job, now))
  /\ UNCHANGED <<now, dbVars, outbox, slackLog, nextRun, triggers, templates,
                 requests, config, scoringFactors, scored, loop, integrations, answers>>

NextNamed ==
  \/ \E a \in LeadInputs :
       PostLead("a@x", a, EnqueueKinds) /\ Len(jobs') <= MaxNamedJobs
  \/ \E job \in HelperJobs :
       /\ leads # <<>>
       /\ job.name = "sequence_step" => sequences # <<>>
       /\ Enqueue(job)
       /\ Len(jobs') <= MaxNamedJobs
  \/ \E q \in Queues : StartJob(q)
  \/ \E j \in Ids(jobs) : MissingHandler(j)
  \/ \E j \in Ids(jobs) : InstantResponseSend(j, "ok")
  \/ \E j \in Ids(jobs) : InstantResponseSequence(j, TRUE)
  \/ \E j \in Ids(jobs) : processFollowUp(j, "ok")
  \/ \E j \in Ids(jobs) : processSequenceStep(j, "ok")
  \/ \E j \in Ids(jobs) : processHighValueAlert(j, TRUE, TRUE, TRUE)
  \/ \E j \in Ids(jobs) : processResponseTimeAlert(j, 10, TRUE, TRUE)
  \/ \E j \in Ids(jobs) : processSlackNotification(j, TRUE)
  \/ /\ QueuesIdle
     /\ TickToNext(Recurring \ {"daily_metrics", "response_time_metrics"})
     /\ now' <= MaxNamedMinutes * 60
     /\ Len(jobs') <= MaxNamedJobs

SpecNamed == Init /\ [][NextNamed]_vars

\* C29: every job in a queue, added by a helper or by a repetition, has a
\* processor registered under its name on that queue
C29_EveryJobHasProcessor ==
  \A j \in Ids(jobs) : jobs[j].name \in Handlers(jobs[j].queue)

----------------------------------------------------------------------------
(* The attempts of one instant_response job: each step of the handler may   *)
(* throw, and the job is retried after its backoff                          *)

NextResend ==
  \/ \E a \in LeadInputs :
       PostLead("a@x", a, {"email"}) /\ Len(jobs') <= MaxResendJobs
  \/ StartJob("email")
  \/ \E j \in Ids(jobs), outcome \in InstantOutcomes : InstantResponseSend(j, outcome)
  \/ \E j \in Ids(jobs), dbOk \in BOOLEAN : InstantResponseSequence(j, dbOk)
  \/ TickToNext({})

SpecResend == Init /\ [][NextResend]_vars

\* C30: over all the attempts of a lead's one instant_response job, at most
\* one instant-response e-mail goes to the lead and at most one email_sent
\* interaction is recorded for it
C30_OneEmailAcrossAttempts ==
  \A l \in Ids(leads) :
    /\ Cardinality({i \in Ids(outbox) : /\ outbox[i].lead_id = l
                                        /\ outbox[i].job = "instant_response"}) <= 1
    /\ Cardinality({i \in Ids(interactions) :
                      /\ interactions[i].lead_id = l
                      /\ interactions[i].interaction_type = "email_sent"}) <= 1

----------------------------------------------------------------------------
(* Follow-ups outside business hours: follow_up jobs of a lead run while    *)
(* their template is for business hours only and it is not one              *)

NextOffHours ==
  \/ \E a \in LeadInputs : PostLead("a@x", a, {})
  \/ \E l \in Ids(leads), d \in {0, 60} :
       AddFollowUp(l, d) /\ Len(jobs') <= MaxOffHoursJobs
  \/ StartJob("email")
  \/ \E j \in Ids(jobs), o \in {"off_hours", "ok"} : processFollowUp(j, o)
  \/ TickToNext({})

SpecOffHours == Init /\ [][NextOffHours]_vars

\* C31: a follow_up job of an open lead that runs outside business hours
\* with a template for business hours only sends no e-mail and is run
\* again later: the job is delayed anew or a job takes its place
C31_OffHoursRunsAgain ==
  [][\A j \in Ids(jobs) :
       (leads[jobs[j].leadId].status \notin ClosedStatuses
          /\ processFollowUp(j, "off_hours"))
       => /\ outbox' = outbox
          /\ \/ jobs'[j].state \in {"delayed", "waiting"}
             \/ Len(jobs') > Len(jobs)]_vars

----------------------------------------------------------------------------
(* Business hours (emailProcessor.js): the clock's zero is a Monday, 00:00  *)
(* local time                                                               *)

Hour == 60 * 60

\* Date.prototype.getHours and getDay (0 is Sunday) of time t
getHours(t) == (t % Day) \div Hour
getDay(t) == ((t \div Day) + 1) % 7

\* the body of isBusinessHours for a clock that reads t
BusinessHoursAt(t) ==
  LET isWeekend == getDay(t) = 0 \/ getDay(t) = 6
      minHour == IF isWeekend THEN 8 ELSE 6
      maxHour == IF isWeekend THEN 20 ELSE 22
  IN getHours(t) >= minHour /\ getHours(t) < maxHour

\* isBusinessHours takes no parameter: whatever it is called with, it reads
\* the clock
isBusinessHours(argument) == BusinessHoursAt(now)

\* getNextBusinessHour is called outside business hours: next is the top of
\* the next hour
GetNextBusinessHourCall ==
  /\ loop.pc = "idle"
  /\ ~BusinessHoursAt(now)
  /\ loop' = [pc |-> "loop", started |-> now,
              next |-> ((now \div Hour) + 1) * Hour, iterations |-> 0]
  /\ UNCHANGED <<now, dbVars, outbox, slackLog, queueVars, triggers, templates,
                 requests, config, scoringFactors, scored, integrations, answers>>

\* one test of the while loop and, if it fails, one run of its body
GetNextBusinessHourTest ==
  /\ loop.pc = "loop"
  /\ IF isBusinessHours(loop.next)
     THEN loop' = [loop EXCEPT !.pc = "returned"]
     ELSE /\ loop.iterations < MaxIterations
          /\ loop' = [loop EXCEPT !.next = @ + Hour, !.iterations = @ + 1]
  /\ UNCHANGED <<now, dbVars, outbox, slackLog, queueVars, triggers, templates,
                 requests, config, scoringFactors, scored, integrations, answers>>

NextHours ==
  \/ GetNextBusinessHourCall
  \/ GetNextBusinessHourTest
  \/ Tick(Hour, {}) /\ now' <= MaxLoopDays * Day

SpecHours == Init /\ [][NextHours]_vars

\* C32: a call of getNextBusinessHour outside business hours is over within
\* a day's worth of iterations while the clock stands still, and the time it
\* returns lies within business hours
C32_NextBusinessHourFound ==
  /\ (loop.pc = "loop" /\ now = loop.started) => loop.iterations < Day \div Hour
  /\ loop.pc = "returned" => BusinessHoursAt(loop.next)

----------------------------------------------------------------------------
(* Sequence steps in and outside business hours: the lead's instant         *)
(* response starts its sequence, sequence_step jobs are added and run       *)

NextStep ==
  \/ \E a \in LeadInputs :
       PostLead("a@x", a, {"email"}) /\ Len(jobs') <= MaxStepJobs
  \/ StartJob("email")
  \/ \E j \in Ids(jobs) : InstantResponseSend(j, "ok")
  \/ \E j \in Ids(jobs) : InstantResponseSequence(j, TRUE)
  \/ \E q \in Ids(sequences) : AddSequenceStep(q) /\ Len(jobs') <= MaxStepJobs
  \/ \E j \in Ids(jobs), o \in {"off_hours", "ok"} : processSequenceStep(j, o)

SpecStep == Init /\ [][NextStep]_vars

----------------------------------------------------------------------------
(* Response-time alerts of leads that were answered or taken on: the        *)
(* instant response goes out, staff record a call, and alert jobs run       *)

NextAlert ==
  \/ \E a \in LeadInputs :
       PostLead("a@x", a, {"email"}) /\ Len(jobs') <= MaxAlertJobs
  \/ StartJob("email")
  \/ \E j \in Ids(jobs) : InstantResponseSend(j, "ok")
  \/ \E j \in Ids(jobs) : InstantResponseSequence(j, TRUE)
  \/ \E l \in Ids(leads) :
       leads[l].status = "new" /\ RecordInteraction(l, "call_made")
  \/ \E l \in Ids(leads) : AddResponseTimeAlert(l) /\ Len(jobs') <= MaxAlertJobs
  \/ StartJob("notification")
  \/ \E j \in Ids(jobs) : processResponseTimeAlert(j, 10, TRUE, TRUE)

SpecAlert == Init /\ [][NextAlert]_vars

\* the e-mails and calls that went to lead l
ResponsesTo(l) ==
  {i \in Ids(interactions) :
     /\ interactions[i].lead_id = l
     /\ interactions[i].interaction_type \in {"email_sent", "call_made"}}

\* C34: a response_time_alert job that runs for a lead that has left status
\* new, or that an e-mail or a call has gone to, creates no notification and
\* sends nothing to Slack or by e-mail
C34_AlertOnlyForUnansweredNew ==
  [][\A j \in Ids(jobs) :
       (/\ jobs[j].name = "response_time_alert"
        /\ processResponseTimeAlert(j, 10, TRUE, TRUE)
        /\ \/ leads[jobs[j].leadId].status # "new"
           \/ ResponsesTo(jobs[j].leadId) # {})
       => /\ notifications' = notifications
          /\ slackLog' = slackLog
          /\ outbox' = outbox]_vars

----------------------------------------------------------------------------
(* The two scorers side by side: the default factors are stored, leads are  *)
(* created and read back with their scoring breakdown                       *)

\* the rows of ScoringFactor.createDefaultFactors
DefaultFactors ==
  [company_name_present |->
     [active |-> TRUE, calculation_method |-> "exact_match",
      value_mappings |-> [present |-> 10, absent |-> 0]],
   estimated_value_tier |->
     [active |-> TRUE, calculation_method |-> "range",
      value_mappings |-> ("1000+" :> 30 @@ "500-999" :> 20 @@ "100-499" :> 10
                            @@ "0-99" :> 5)],
   service_type_priority |->
     [active |-> TRUE, calculation_method |-> "exact_match",
      value_mappings |-> [corporate |-> 25, airport |-> 20, events |-> 15,
                          wedding |-> 15, hourly |-> 10]],
   geographic_proximity |->
     [active |-> TRUE, calculation_method |-> "range",
      value_mappings |-> ("0-25" :> 15 @@ "26-50" :> 10 @@ "51-100" :> 5
                            @@ "100+" :> 0)],
   group_size_factor |->
     [active |-> TRUE, calculation_method |-> "range",
      value_mappings |-> ("8+" :> 15 @@ "4-7" :> 10 @@ "2-3" :> 5 @@ "1" :> 0)],
   timing_urgency |-> DefaultTimingUrgency]

\* ScoringFactor.createDefaultFactors
createDefaultFactors ==
  /\ scoringFactors = [n \in {} |-> 0]
  /\ scoringFactors' = DefaultFactors
  /\ UNCHANGED <<now, dbVars, outbox, slackLog, queueVars, triggers, templates,
                 requests, config, scored, loop, integrations, answers>>

\* ScoringFactor.getScoreBreakdown: its total_score
getScoreBreakdown(table, lead) ==
  Min(SumFactorScores(table, findActive(table), lead), 100)

\* GET /api/v2/leads/:leadId: the lead with its scoring breakdown
GetLead(l) ==
  /\ l \in Ids(leads)
  /\ scored' = [by |-> "ScoringFactor.getScoreBreakdown", lead |-> leads[l],
                score |-> getScoreBreakdown(scoringFactors, leads[l])]
  /\ UNCHANGED <<now, dbVars, outbox, slackLog, queueVars, triggers, templates,
                 requests, config, scoringFactors, loop, integrations, answers>>

BreakdownInputs ==
  [company_name : {"", "Acme"}, estimated_value : {Undef, 50, 1500},
   service_type : {"corporate", "airport"}, distance_from_base : {Undef, 10},
   passenger_count : {Undef, 6}]

NextBreakdown ==
  \/ createDefaultFactors
  \/ \E e \in Emails, a \in BreakdownInputs :
       PostLead(e, a, {}) /\ Len(leads') <= MaxBreakdownLeads
  \/ \E l \in Ids(leads) : GetLead(l)

SpecBreakdown == Init /\ [][NextBreakdown]_vars

\* C35: the total_score of the breakdown returned with a lead, computed over
\* the default factors, is the lead_score stored with the lead
C35_ScorersAgree ==
  (scored.by = "ScoringFactor.getScoreBreakdown" /\ scoringFactors = DefaultFactors)
    => scored.score = scored.lead.lead_score

----------------------------------------------------------------------------
(* Intake while the queues refuse jobs: each queue.add of the two intake    *)
(* routes succeeds or throws                                                *)

\* the queue.add calls that succeed in one request: none, one, two or all
EnqueueOutcomes == {{}, {"email"}, {"notification", "sync"}, EnqueueKinds}

NextEnqueue ==
  \/ \E e \in Emails, a \in LeadInputs, enq \in EnqueueOutcomes :
       PostLead(e, a, enq) /\ Len(leads') <= MaxEnqueueLeads
  \/ \E e \in Emails, a \in LeadInputs, dbOk \in BOOLEAN, enq \in EnqueueOutcomes :
       /\ FormSubmission(e, a, dbOk, enq)
       /\ Len(leads') <= MaxEnqueueLeads
       /\ Len(webhookLogs') <= MaxEnqueueLogs

SpecEnqueue == Init /\ [][NextEnqueue]_vars

\* C36: when queue.add calls of POST /leads or of the form-submission webhook
\* fail, the lead is stored all the same, the webhook record is marked
\* processed with the lead, and the request is answered as a success
C36_EnqueueFailureKeepsLead ==
  [][\A e \in Emails, a \in LeadInputs, enq \in EnqueueOutcomes \ {EnqueueKinds} :
       /\ PostLead(e, a, enq) =>
            /\ Len(leads') = Len(leads) + 1
            /\ leads'[Len(leads')].email = e
            /\ Answer("POST /leads", Len(leads'), TRUE) \in answers'
       /\ (RecentLeadsOf(e, now) = {} /\ ~EmailTaken(e)
             /\ FormSubmission(e, a, TRUE, enq)) =>
            /\ Len(leads') = Len(leads) + 1
            /\ leads'[Len(leads')].email = e
            /\ webhookLogs'[Len(webhookLogs')].processed
            /\ webhookLogs'[Len(webhookLogs')].lead_id = Len(leads')
            /\ Answer("POST /form-submission", Len(webhookLogs'), TRUE) \in answers']_vars

\* a lead of each route is stored and answered for, and no job was added for
\* it
C36_Witness ==
  /\ \E l \in Ids(leads) :
       /\ Answer("POST /leads", l, TRUE) \in answers
       /\ \A j \in Ids(jobs) : jobs[j].leadId # l
  /\ \E w \in Ids(webhookLogs) :
       /\ webhookLogs[w].processed
       /\ webhookLogs[w].lead_id \in Ids(leads)
       /\ Answer("POST /form-submission", w, TRUE) \in answers
       /\ \A j \in Ids(jobs) : jobs[j].leadId # webhookLogs[w].lead_id

----------------------------------------------------------------------------
(* The sent flag of notifications, over the runs of SpecFanOut *)

\* C37: a run of a high_value_alert or response_time_alert job in which
\* every channel fails leaves the notification it created with sent = FALSE
C37_SentOnlyIfDelivered ==
  [][\A j \in Ids(jobs), m \in AlertMinutes :
       (\/ processHighValueAlert(j, FALSE, FALSE, FALSE)
        \/ processResponseTimeAlert(j, m, FALSE, FALSE))
       => \A n \in Ids(notifications') \ Ids(notifications) :
            ~notifications'[n].sent]_vars

----------------------------------------------------------------------------
(* External integrations: the failure counter, the automatic deactivation   *)
(* and the configuration route                                              *)

\* ExternalIntegration.createDefaultIntegrations: findOrCreate by
\* service_name; consecutive_failures and max_failures take the column
\* defaults 0 and 5
DefaultIntegrations ==
  [n \in {"zoho_crm", "slack_notifications"} |->
     [active |-> (n = "zoho_crm"), consecutive_failures |-> 0, max_failures |-> 5]]

createDefaultIntegrations ==
  /\ \E n \in DOMAIN DefaultIntegrations : n \notin DOMAIN integrations
  /\ integrations' = [n \in DOMAIN DefaultIntegrations |->
                        IF n \in DOMAIN integrations THEN integrations[n]
                        ELSE DefaultIntegrations[n]]
  /\ UNCHANGED <<now, dbVars, outbox, slackLog, queueVars, triggers, templates,
                 requests, config, scoringFactors, scored, loop, answers>>

\* integration.recordSuccessfulSync(): active is not written
recordSuccessfulSync(i) == [i EXCEPT !.consecutive_failures = 0]

\* integration.recordFailedSync(message)
recordFailedSync(i) ==
  LET n == i.consecutive_failures + 1
  IN [i EXCEPT !.consecutive_failures = n,
               !.active = IF n >= i.max_failures THEN FALSE ELSE @]

\* integration.resetFailures()
resetFailures(i) == [i EXCEPT !.consecutive_failures = 0, !.active = TRUE]

ResetFailures(n) ==
  /\ n \in DOMAIN integrations
  /\ integrations' = [integrations EXCEPT ![n] = resetFailures(@)]
  /\ UNCHANGED <<now, dbVars, outbox, slackLog, queueVars, triggers, templates,
                 requests, config, scoringFactors, scored, loop, answers>>

\* the bodies of PUT /:integrationId/config: active is a boolean or absent,
\* max_failures a number, 0 standing for absent too (both are falsy)
ConfigBodies ==
  {[has_active |-> FALSE, active |-> FALSE, max_failures |-> 2],
   [has_active |-> TRUE, active |-> TRUE, max_failures |-> 0],
   [has_active |-> TRUE, active |-> FALSE, max_failures |-> 0],
   [has_active |-> TRUE, active |-> TRUE, max_failures |-> 2]}

\* PUT /:integrationId/config: the counter is reset only when the body
\* activates an inactive integration
PutIntegrationConfig(n, body) ==
  /\ n \in DOMAIN integrations
  /\ LET i == integrations[n]
         u1 == IF body.has_active THEN [i EXCEPT !.active = body.active] ELSE i
         u2 == IF body.max_failures # 0
               THEN [u1 EXCEPT !.max_failures = body.max_failures] ELSE u1
         u3 == IF body.has_active /\ body.active /\ ~i.active
               THEN [u2 EXCEPT !.consecutive_failures = 0] ELSE u2
     IN integrations' = [integrations EXCEPT ![n] = u3]
  /\ UNCHANGED <<now, dbVars, outbox, slackLog, queueVars, triggers, templates,
                 requests, config, scoringFactors, scored, loop, answers>>

\* integrationQueue.add('zoho_sync', ...): a job under the name the
\* processor is registered for, with the options of addIntegrationSync
AddZohoSync ==
  Enqueue([BaseJob("integration", "zoho_sync") EXCEPT
             !.priority = 8, !.attempts = 3, !.backoff = 5])

\* processZohoSync: a missing or inactive integration throws; the catch
\* reads the integration again and records the failure, whatever threw
processZohoSync(id, ok) ==
  /\ id \in Ids(jobs)
  /\ jobs[id].state = "active"
  /\ jobs[id].name = "zoho_sync"
  /\ LET n == "zoho_crm"
         found == n \in DOMAIN integrations
     IN IF found /\ integrations[n].active /\ ok
        THEN /\ integrations' = [integrations EXCEPT ![n] = recordSuccessfulSync(@)]
             /\ SetQueues(QComplete(QS, id, "success", now))
        ELSE /\ integrations' = IF found
                                THEN [integrations EXCEPT ![n] = recordFailedSync(@)]
                                ELSE integrations
             /\ SetQueues(QFail(QS, id, now))
  /\ UNCHANGED <<now, dbVars, outbox, slackLog, nextRun, triggers, templates,
                 requests, config, scoringFactors, scored, loop, answers>>

NextSync ==
  \/ createDefaultIntegrations
  \/ AddZohoSync /\ Len(jobs') <= MaxSyncJobs
  \/ StartJob("integration")
  \/ \E j \in Ids(jobs), ok \in BOOLEAN : processZohoSync(j, ok)
  \/ \E n \in DOMAIN integrations : ResetFailures(n)
  \/ \E n \in DOMAIN integrations, body \in ConfigBodies : PutIntegrationConfig(n, body)
  \/ QueuesIdle /\ TickToNext({})

SpecSync == Init /\ [][NextSync]_vars

\* C38: an active integration has fewer consecutive failures than its
\* max_failures, in every state reached through the sync processor,
\* resetFailures and the configuration route
C38_ActiveBelowMaxFailures ==
  \A n \in DOMAIN integrations :
    integrations[n].active =>
      integrations[n].consecutive_failures < integrations[n].max_failures

====
